---------------------------- MODULE Spec2Model ----------------------------
(***************************************************************************)
(* A model of the analysis engine of react-state-map                       *)
(* (src/src/reactAnalyzer.ts, class ReactAnalyzer, lines 1-1068) and of    *)
(* the way src/src/extension.ts drives it.                                 *)
(*                                                                         *)
(* Paths, identifiers and item ids are TLA+ strings, handled character by  *)
(* character exactly where the code handles them as strings (includes,     *)
(* extname, the regular expressions, the template literals).               *)
(***************************************************************************)
EXTENDS Naturals, Integers, Sequences, FiniteSets, TLC

VARIABLES
    fsys,          \* the file system the analyzer reads (never written)
    probe,         \* input and output of the pure helpers under check
    heap,          \* the DebugInfo objects allocated so far
    thisDebug,     \* this.debugInfo: index into heap
    active,        \* the call running synchronously (0: none, all suspended)
    pc,            \* per call: position in analyzeReactProject
    root,          \* per call: the projectPath argument
    reactFiles,    \* per call: const reactFiles
    idx,           \* per call: position of the for..of loop over reactFiles
    components,    \* per call: const components
    componentMap,  \* per call: const componentMap (sequence of [key, value])
    stack,         \* per call: the analyzeFile activations, outermost first
    ret,           \* per call: the settled promise of the analyzeFile awaited
    flows,         \* per call: const flows
    result,        \* per call: the AnalysisResult returned
    analyzeFileCalls,  \* per call: the paths analyzeFile was entered with
    currentPanel,  \* extension.ts: let currentPanel (0: undefined)
    panels,        \* the VisualizerPanels created so far: [disposed]
    commands,      \* the showDiagram invocations so far: [pc, panel]
    updates        \* the updateVisualization invocations so far (history):
                   \* [by, panel, disposed: the panel was disposed then,
                   \*  closed: the panel of the invocation was disposed then]

vars == <<fsys, probe, heap, thisDebug, active, pc, root, reactFiles, idx,
          components, componentMap, stack, ret, flows, result,
          analyzeFileCalls, currentPanel, panels, commands, updates>>

extVars == <<currentPanel, panels, commands, updates>>

runVars == <<heap, thisDebug, active, pc, root, reactFiles, idx, components,
             componentMap, stack, ret, flows, result, analyzeFileCalls>>

-----------------------------------------------------------------------------
(* Bounds of the model.                                                    *)

\* deepest nesting of analyzeFile activations before the engine's call
\* stack is exhausted (RangeError)
MaxDepth == 4

\* calls of analyzeReactProject made on the one ReactAnalyzer instance
MaxCalls == 2

\* the showDiagram invocations of a run of the extension
MaxCommands == 3

\* the longest component list given to layoutComponents on its own
MaxComponents == 5

-----------------------------------------------------------------------------
(* Strings.                                                                *)

null == "<null>"

Char(s, i) == SubSeq(s, i, i)

\* String.prototype.includes
Includes(s, w) ==
    \E i \in 1..(Len(s) + 1 - Len(w)) : SubSeq(s, i, i + Len(w) - 1) = w

\* String.prototype.startsWith
StartsWith(s, w) == Len(s) >= Len(w) /\ SubSeq(s, 1, Len(w)) = w

EndsWith(s, w) ==
    Len(s) >= Len(w) /\ SubSeq(s, Len(s) - Len(w) + 1, Len(s)) = w

\* position of the last occurrence of the character c in s, 0 if none
LastIndexOf(s, c) ==
    LET hits == {i \in 1..Len(s) : Char(s, i) = c}
    IN  IF hits = {} THEN 0 ELSE CHOOSE i \in hits : \A j \in hits : j <= i

\* position of the first occurrence of the character c in s, 0 if none
IndexOf(s, c) ==
    LET hits == {i \in 1..Len(s) : Char(s, i) = c}
    IN  IF hits = {} THEN 0 ELSE CHOOSE i \in hits : \A j \in hits : i <= j

UpperCase == {"A", "B", "C", "D", "E", "F", "G", "H", "I", "J", "K", "L", "M",
              "N", "O", "P", "Q", "R", "S", "T", "U", "V", "W", "X", "Y", "Z"}

\* /^[A-Z]/.test(name)
StartsUpper(name) == Len(name) > 0 /\ Char(name, 1) \in UpperCase

RECURSIVE SeqToSet(_)
SeqToSet(s) == IF s = <<>> THEN {} ELSE {Head(s)} \cup SeqToSet(Tail(s))

RECURSIVE SelectSeqBy(_, _)
\* the elements of s that are members of the set keep, in order
SelectSeqBy(s, keep) ==
    IF s = <<>> THEN <<>>
    ELSE (IF Head(s) \in keep THEN <<Head(s)>> ELSE <<>>)
         \o SelectSeqBy(Tail(s), keep)

-----------------------------------------------------------------------------
(* node's path module, for absolute POSIX paths.                           *)

\* path.dirname
DirName(p) ==
    LET k == LastIndexOf(p, "/")
    IN  IF k <= 1 THEN "/" ELSE SubSeq(p, 1, k - 1)

\* path.basename
BaseName(p) == SubSeq(p, LastIndexOf(p, "/") + 1, Len(p))

\* path.extname: from the last "." of the basename, "" when there is none or
\* when it is the first character of the basename
ExtName(p) ==
    LET b == BaseName(p)
        k == LastIndexOf(b, ".")
    IN  IF k <= 1 THEN "" ELSE SubSeq(b, k, Len(b))

\* path.join(dir, item) for a plain item name
Join(dir, item) == IF dir = "/" THEN "/" \o item ELSE dir \o "/" \o item

RECURSIVE Resolve(_, _)
\* path.resolve(dir, rel) for a relative specifier: "." and ".." segments
\* are folded into dir, the other segments are appended
Resolve(dir, rel) ==
    IF rel = "" THEN dir
    ELSE LET k    == IndexOf(rel, "/")
             seg  == IF k = 0 THEN rel ELSE SubSeq(rel, 1, k - 1)
             rest == IF k = 0 THEN "" ELSE SubSeq(rel, k + 1, Len(rel))
             next == IF seg = "." \/ seg = "" THEN dir
                     ELSE IF seg = ".." THEN DirName(dir)
                     ELSE Join(dir, seg)
         IN  Resolve(next, rest)

-----------------------------------------------------------------------------
(* The file system: fsys.dirs maps a directory to its listing (readdirSync *)
(* order), fsys.files is the set of regular files, fsys.statFail the paths *)
(* statSync throws on, fsys.listFail the directories readdirSync throws on,*)
(* fsys.content the text of each file as the parser sees it.               *)

IsDir(fs, p) == p \in DOMAIN fs.dirs

IsFile(fs, p) == p \in fs.files

\* fs.statSync(p) throws
StatThrows(fs, p) == p \in fs.statFail \/ ~(IsDir(fs, p) \/ IsFile(fs, p))

\* fs.existsSync
existsSync(fs, p) == ~StatThrows(fs, p)


-----------------------------------------------------------------------------
(* resolveImportPath (reactAnalyzer.ts 386-414).                           *)

extensions == <<".tsx", ".ts", ".jsx", ".js">>

RECURSIVE FirstExisting(_, _)
\* the first path of cands that exists, null when none does: the two for
\* loops of resolveImportPath, each returning at its first hit
FirstExisting(fs, cands) ==
    IF cands = <<>> THEN null
    ELSE IF existsSync(fs, Head(cands)) THEN Head(cands)
    ELSE FirstExisting(fs, Tail(cands))

\* resolved + ext, for each extension in order
WithExt(resolved) == [i \in 1..Len(extensions) |-> resolved \o extensions[i]]

\* path.join(resolved, 'index' + ext), for each extension in order
IndexPaths(resolved) ==
    [i \in 1..Len(extensions) |-> Join(resolved, "index" \o extensions[i])]

resolveImportPath(fs, fromFile, importPath) ==
    LET resolved == Resolve(DirName(fromFile), importPath)
    IN  IF ExtName(resolved) = ""
        THEN FirstExisting(fs, WithExt(resolved) \o IndexPaths(resolved))
        ELSE IF existsSync(fs, resolved) THEN resolved ELSE null

-----------------------------------------------------------------------------
(* findReactFiles (reactAnalyzer.ts 116-151).                              *)

\* the guard of scanDirectory: a substring test on the whole directory path
Excluded(dirPath) ==
    \/ Includes(dirPath, "node_modules")
    \/ Includes(dirPath, ".git")
    \/ Includes(dirPath, ".next")
    \/ Includes(dirPath, "media")
    \/ Includes(dirPath, "out")

\* /\.(jsx?|tsx?)$/.test(item)
IsSourceName(item) ==
    \/ EndsWith(item, ".js")
    \/ EndsWith(item, ".jsx")
    \/ EndsWith(item, ".ts")
    \/ EndsWith(item, ".tsx")

RECURSIVE scanDirectory(_, _, _)
RECURSIVE scanItems(_, _, _, _)

\* acc is [reactFiles, parseErrors]: the files pushed so far and the
\* directories whose try block ended in the catch clause
scanDirectory(fs, dirPath, acc) ==
    IF Excluded(dirPath) THEN acc
    ELSE IF dirPath \in fs.listFail
    THEN [acc EXCEPT !.parseErrors = Append(@, dirPath)]
    ELSE scanItems(fs, dirPath, fs.dirs[dirPath], acc)

\* the for loop over the listing of dirPath; a statSync that throws leaves
\* the loop for the catch clause of dirPath
scanItems(fs, dirPath, items, acc) ==
    IF items = <<>> THEN acc
    ELSE LET item     == Head(items)
             fullPath == Join(dirPath, item)
         IN  IF StatThrows(fs, fullPath)
             THEN [acc EXCEPT !.parseErrors = Append(@, dirPath)]
             ELSE IF IsDir(fs, fullPath)
             THEN scanItems(fs, dirPath, Tail(items),
                            scanDirectory(fs, fullPath, acc))
             ELSE IF IsSourceName(item)
             THEN scanItems(fs, dirPath, Tail(items),
                            [acc EXCEPT !.reactFiles = Append(@, fullPath)])
             ELSE scanItems(fs, dirPath, Tail(items), acc)

\* [threw, reactFiles, parseErrors]: threw when statSync(projectPath) throws
findReactFiles(fs, projectPath) ==
    LET none == [reactFiles |-> <<>>, parseErrors |-> <<>>]
    IN  IF StatThrows(fs, projectPath)
        THEN [threw |-> TRUE, reactFiles |-> <<>>, parseErrors |-> <<>>]
        ELSE IF IsFile(fs, projectPath)
        THEN [threw |-> FALSE, reactFiles |-> <<projectPath>>,
              parseErrors |-> <<>>]
        ELSE LET r == scanDirectory(fs, projectPath, none)
             IN  [threw |-> FALSE, reactFiles |-> r.reactFiles,
                  parseErrors |-> r.parseErrors]

-----------------------------------------------------------------------------
(* Source text, as @babel/parser and the visitors see it.                  *)
(*                                                                         *)
(* fsys.content[f] is [readable, parses, imports, decls, jsx]:             *)
(*   readable  readFileSync(f) returns                                     *)
(*   parses    parse(code) returns an AST                                  *)
(*   imports   the ImportDeclarations and the ExportNamedDeclarations that  *)
(*             have a source, in document order:                           *)
(*             [stmt, source, specifiers: Seq([type, name])]               *)
(*   decls     the declarations the visitors of analyzeFile meet, in       *)
(*             document order: [node, exported, name, init, hasJSX,        *)
(*             returnStatements, inner, superClass, body, params,          *)
(*             propsUsage, methods]                                        *)
(*   jsx       the JSXElements, in document order: [tag, ancestors,        *)
(*             attributes]; ancestors are the enclosing nodes, innermost   *)
(*             first                                                       *)

\* Map.prototype.set on a map kept as a sequence of [key, value] in
\* insertion order: an existing key keeps its place and takes the value
MapSet(map, key, value) ==
    IF \E i \in 1..Len(map) : map[i].key = key
    THEN [i \in 1..Len(map) |->
            IF map[i].key = key THEN [key |-> key, value |-> value]
            ELSE map[i]]
    ELSE Append(map, [key |-> key, value |-> value])

MapHas(map, key) == \E i \in 1..Len(map) : map[i].key = key

\* Map.prototype.get, for a key the map has
MapGet(map, key) == map[CHOOSE i \in 1..Len(map) : map[i].key = key].value

RECURSIVE MapSetAll(_, _)
\* fileComponents.forEach(comp => componentMap.set(comp.name, comp))
MapSetAll(map, comps) ==
    IF comps = <<>> THEN map
    ELSE MapSetAll(MapSet(map, Head(comps).name, Head(comps)), Tail(comps))

RECURSIVE specifierEntries(_, _, _, _)
\* the importedComponents.set calls of one declaration (176-189, 200-216)
specifierEntries(map, stmt, specifiers, resolvedPath) ==
    IF specifiers = <<>> THEN map
    ELSE LET spec == Head(specifiers)
             hit  == IF stmt = "import"
                     THEN spec.type \in {"ImportDefaultSpecifier",
                                         "ImportSpecifier"}
                     ELSE spec.type = "ExportSpecifier"
         IN  specifierEntries(
                 IF hit THEN MapSet(map, spec.name, resolvedPath) ELSE map,
                 stmt, Tail(specifiers), resolvedPath)

RECURSIVE importEntries(_, _, _, _, _)
\* one traversal over the declarations of kind stmt
importEntries(fs, filePath, imports, stmt, map) ==
    IF imports = <<>> THEN map
    ELSE LET d == Head(imports)
             resolvedPath == resolveImportPath(fs, filePath, d.source)
             found == /\ d.stmt = stmt
                      /\ StartsWith(d.source, ".")
                      /\ resolvedPath # null
         IN  importEntries(fs, filePath, Tail(imports), stmt,
                 IF found
                 THEN specifierEntries(map, stmt, d.specifiers, resolvedPath)
                 ELSE map)

\* importedComponents after the two traversals of analyzeFile: the imports
\* of the first pass, then the re-exports of the second
collectImports(fs, filePath, imports) ==
    importEntries(fs, filePath, imports, "export",
        importEntries(fs, filePath, imports, "import", <<>>))

\* checkNode over the body of a function (427-490, 516-518): the walk
\* follows every key of every node, so it also enters the functions and
\* classes declared inside the body.  A declaration gives what its own
\* statements hold (hasJSX, returnStatements) and what the bodies nested in
\* it hold (inner)
checkNode(decl) ==
    [hasJSX |-> decl.hasJSX \/ decl.inner.hasJSX,
     returnStatements |-> decl.returnStatements
                          + decl.inner.returnStatements]

\* a plausible slip: the naming convention is consulted only when the body
\* holds no JSX
isReactComponent_JSXFirst(decl, name) ==
    LET found == checkNode(decl)
    IN  \/ found.hasJSX
        \/ (name # "" /\ StartsUpper(name) /\ found.returnStatements > 0)

\* isReactComponent (416-529)
isReactComponent(decl, name) ==
    IF name # "" /\ ~StartsUpper(name) THEN FALSE
    ELSE LET found == checkNode(decl)
         IN  \/ found.hasJSX
             \/ (name # "" /\ StartsUpper(name)
                 /\ found.returnStatements > 0)

\* isReactClassComponent (531-545); superClass is the source text of the
\* superclass: "" for none, a dotted name for a member expression, a plain
\* name for an identifier, anything else for another expression
isReactClassComponent(decl) ==
    IF decl.superClass = "" THEN FALSE
    ELSE IF Includes(decl.superClass, ".")
         THEN EndsWith(decl.superClass, ".Component")
         ELSE decl.superClass = "Component"

Max(a, b) == IF a >= b THEN a ELSE b

Item(componentName, idName, name, type, flowId) ==
    [id |-> componentName \o "-" \o idName, name |-> name, type |-> type,
     flowId |-> flowId]

RECURSIVE bodyItems(_, _, _)
\* the visitors of analyzeComponent over the body (556-688); body lists the
\* calls and local functions in traversal order as [kind, declarator,
\* elements]; itemCounter numbers the slots that are no plain identifier
bodyItems(componentName, body, itemCounter) ==
    IF body = <<>> THEN <<>>
    ELSE LET b == Head(body)
             hook == /\ b.kind \in {"useState", "useReducer"}
                     /\ b.declarator = "ArrayPattern"
                     /\ Len(b.elements) >= 2
             n1 == IF hook /\ b.elements[1] = "" THEN 1 ELSE 0
             n2 == IF hook /\ b.elements[2] = "" THEN 1 ELSE 0
             stateName ==
                 IF b.elements[1] # "" THEN b.elements[1]
                 ELSE "state" \o ToString(itemCounter)
             setterName ==
                 IF b.elements[2] # "" THEN b.elements[2]
                 ELSE (IF b.kind = "useState" THEN "setter" ELSE "dispatch")
                      \o ToString(itemCounter + n1)
             here ==
                 CASE hook ->
                        <<Item(componentName, stateName, stateName, "state",
                               stateName \o "-flow"),
                          Item(componentName, setterName, setterName,
                               "setter", stateName \o "-flow")>>
                   [] b.kind = "useContext" /\ b.declarator = "Identifier" ->
                        <<Item(componentName, b.elements[1],
                               b.elements[1] \o "()", "context-consumer",
                               b.elements[1] \o "-context")>>
                   [] b.kind = "Provider" ->
                        LET contextName == IF b.elements[1] # ""
                                           THEN b.elements[1] ELSE "Context"
                        IN  <<Item(componentName, contextName \o "Provider",
                                   contextName \o "Provider",
                                   "context-provider",
                                   contextName \o "-context")>>
                   [] b.kind = "FunctionDeclaration"
                      /\ b.elements[1] # componentName ->
                        <<Item(componentName, b.elements[1], b.elements[1],
                               "function", b.elements[1] \o "-flow")>>
                   [] b.kind = "ArrowVariable" ->
                        <<Item(componentName, b.elements[1], b.elements[1],
                               "function", b.elements[1] \o "-flow")>>
                   [] OTHER -> <<>>
         IN  here \o bodyItems(componentName, Tail(body),
                               itemCounter + n1 + n2)

RECURSIVE patternProps(_)
\* firstParam.properties.forEach (786-794): an ObjectProperty gives its key
\* when the key is an Identifier, a RestElement gives "..." and the name of
\* its argument, anything else gives nothing
patternProps(properties) ==
    IF properties = <<>> THEN <<>>
    ELSE LET prop == Head(properties)
         IN  (IF prop.type = "ObjectProperty" /\ prop.key = "Identifier"
              THEN <<prop.name>>
              ELSE IF prop.type = "RestElement" /\ prop.key = "Identifier"
              THEN <<"..." \o prop.name>>
              ELSE <<>>)
             \o patternProps(Tail(properties))

RECURSIVE usedProps(_, _)
\* findPropsUsage (801-825) over the member expressions props.<name> of the
\* body, in the order of the walk: a name is pushed once
usedProps(usage, props) ==
    IF usage = <<>> THEN props
    ELSE usedProps(Tail(usage),
                   IF Head(usage) \in SeqToSet(props) THEN props
                   ELSE Append(props, Head(usage)))

\* extractProps (761-850)
extractProps(decl) ==
    IF Len(decl.params) = 0 THEN <<>>
    ELSE LET firstParam == decl.params[1]
         IN  IF firstParam.type = "ObjectPattern"
             THEN patternProps(firstParam.properties)
             ELSE IF firstParam.type = "Identifier"
                     /\ firstParam.name = "props"
             THEN usedProps(decl.propsUsage, <<>>)
             ELSE <<>>

\* a plausible slip: a prop named on... becomes a prop-function item
propItems_Handlers(componentName, props) ==
    [i \in 1..Len(props) |->
        Item(componentName, props[i], props[i],
             IF StartsWith(props[i], "on") THEN "prop-function" ELSE "prop",
             props[i] \o "-flow")]

\* the items pushed from extractProps (694-702)
propItems(componentName, props) ==
    [i \in 1..Len(props) |->
        Item(componentName, props[i], props[i], "prop",
             props[i] \o "-flow")]

\* traverse(node, visitors) of @babel/traverse, called without a scope and
\* a parentPath (556, 727): the library accepts a Program or a File only
\* and throws for any other node before it visits anything
traverseThrows(node) == node \notin {"Program", "File"}

ComponentData(componentName, filePath, items) ==
    [id |-> componentName, filePath |-> filePath, name |-> componentName,
     x |-> 0, y |-> 0,
     width |-> Max(200, Len(componentName) * 8 + 40),
     height |-> Max(100, Len(items) * 18 + 60),
     items |-> items]

\* the node analyzeFile hands to analyzeComponent: the declaration, the
\* declarator, or the default-exported function itself (230-327)
passedNode(decl) ==
    IF decl.node = "ExportDefaultExpression" THEN decl.init ELSE decl.node

\* analyzeComponent (547-716): the items of the visitors when the traversal
\* runs, none when it throws into the catch of line 690; then the props
analyzeComponent(decl, filePath, componentName) ==
    ComponentData(componentName, filePath,
        (IF traverseThrows(passedNode(decl)) THEN <<>>
         ELSE bodyItems(componentName, decl.body, 0))
            \o propItems(componentName, extractProps(decl)))

\* analyzeClassComponent (718-759): the items of the ClassMethod visitor
\* when the traversal runs, none when it throws into the catch of line 745
analyzeClassComponent(decl, filePath) ==
    LET kept == SelectSeq(decl.methods,
                    LAMBDA m : m # "render" /\ m # "constructor")
    IN  ComponentData(decl.name, filePath,
            IF traverseThrows(decl.node) THEN <<>>
            ELSE [i \in 1..Len(kept) |->
                     Item(decl.name, kept[i], kept[i], "function",
                          kept[i] \o "-flow")])

\* the name a declaration is classified under, "" when no visitor of
\* analyzeFile classifies it
declName(decl) ==
    IF decl.node = "ExportDefaultExpression" THEN "DefaultExport"
    ELSE decl.name

\* the visitor of analyzeFile that handles the declaration accepts it
accepted(decl) ==
    CASE decl.node = "ClassDeclaration" ->
            decl.name # "" /\ isReactClassComponent(decl)
      [] decl.node = "FunctionDeclaration" ->
            decl.name # "" /\ isReactComponent(decl, decl.name)
      [] decl.node = "VariableDeclarator" ->
            /\ decl.name # ""
            /\ decl.init \in {"ArrowFunctionExpression", "FunctionExpression"}
            /\ isReactComponent(decl, decl.name)
      [] decl.node = "ExportDefaultExpression" ->
            /\ decl.init \in {"ArrowFunctionExpression", "FunctionExpression"}
            /\ isReactComponent(decl, "DefaultExport")
      [] OTHER -> FALSE

\* the component the accepting visitor pushes
componentOf(decl, filePath) ==
    IF decl.node = "ClassDeclaration"
    THEN analyzeClassComponent(decl, filePath)
    ELSE analyzeComponent(decl, filePath, declName(decl))

RECURSIVE fileComponents(_, _)
\* the components pushed by the second traversal of analyzeFile (196-355)
fileComponents(decls, filePath) ==
    IF decls = <<>> THEN <<>>
    ELSE (IF accepted(Head(decls))
          THEN <<componentOf(Head(decls), filePath)>> ELSE <<>>)
         \o fileComponents(Tail(decls), filePath)

-----------------------------------------------------------------------------
(* Diagnostics.  An entry of this.debugInfo is [kind, path, name, by]:     *)
(* kind names the template of the message, path and name are the values    *)
(* the template interpolates, and by is the call that pushed the entry     *)
(* (history only: the program never reads it).                             *)

Entry(kind, path, name) == [kind |-> kind, path |-> path, name |-> name]

Tagged(entries, c) ==
    [i \in 1..Len(entries) |->
        [kind |-> entries[i].kind, path |-> entries[i].path,
         name |-> entries[i].name, by |-> c]]

EmptyDebug ==
    [filesAnalyzed |-> <<>>, componentsFound |-> <<>>,
     parseErrors |-> <<>>, analysisLog |-> <<>>]

\* the declaration is skipped by the FunctionDeclaration / VariableDeclarator
\* visitor because the export visitor handles it (290, 312)
byExportVisitor(decl) ==
    decl.exported # "" /\ decl.node # "ClassDeclaration"

RECURSIVE classifyLog(_, _)
\* the accept and reject entries of the second traversal of analyzeFile
classifyLog(decls, filePath) ==
    IF decls = <<>> THEN <<>>
    ELSE LET d == Head(decls)
             classified ==
                 CASE d.node = "VariableDeclarator" ->
                        d.name # "" /\ d.init \in {"ArrowFunctionExpression",
                                                   "FunctionExpression"}
                   [] d.node = "ExportDefaultExpression" ->
                        d.init \in {"ArrowFunctionExpression",
                                    "FunctionExpression"}
                   [] OTHER -> d.name # ""
         IN  (IF accepted(d)
              THEN <<Entry("accept", filePath, declName(d))>>
                   \o (IF traverseThrows(passedNode(d))
                       THEN <<Entry("componentError", filePath,
                                    declName(d))>>
                       ELSE <<>>)
              ELSE IF classified /\ ~byExportVisitor(d)
              THEN <<Entry("reject", filePath, declName(d))>>
              ELSE <<>>)
             \o classifyLog(Tail(decls), filePath)

-----------------------------------------------------------------------------
(* analyzeJSXFlows (852-966), determineFlowType (968-975).                 *)

\* a plausible slip: the kind of the target item is not looked at
determineFlowType_FromOnly(fromType, toType) ==
    IF fromType = "state" THEN "state-to-prop"
    ELSE IF fromType = "setter" THEN "setter-to-prop"
    ELSE IF fromType = "function" THEN "function-to-prop"
    ELSE IF fromType = "prop" THEN "prop-to-prop"
    ELSE IF fromType = "context-provider" THEN "context-provider-to-consumer"
    ELSE "data-flow"

determineFlowType(fromType, toType) ==
    IF fromType = "state" /\ toType = "prop" THEN "state-to-prop"
    ELSE IF fromType = "setter" /\ toType = "prop-function"
    THEN "setter-to-prop"
    ELSE IF fromType = "function" /\ toType = "prop-function"
    THEN "function-to-prop"
    ELSE IF fromType = "prop" /\ toType = "prop" THEN "prop-to-prop"
    ELSE IF fromType = "context-provider" THEN "context-provider-to-consumer"
    ELSE "data-flow"

\* Array.prototype.find over items by name, restricted to the given types:
\* the index of the first match, 0 when there is none
FindItem(items, name, types) ==
    LET hits == {i \in 1..Len(items) :
                    items[i].name = name /\ items[i].type \in types}
    IN  IF hits = {} THEN 0 ELSE CHOOSE i \in hits : \A j \in hits : i <= j

ItemTypes == {"state", "setter", "prop", "prop-function", "function",
              "context-provider", "context-consumer"}

\* the while loop over currentPath (884-894): the index of the first
\* ancestor that is a FunctionDeclaration with an id or a VariableDeclarator
\* with an Identifier id, 0 when the walk reaches the root
ParentAncestor(ancestors) ==
    LET hits == {i \in 1..Len(ancestors) :
                    /\ ancestors[i].type \in {"FunctionDeclaration",
                                              "VariableDeclarator"}
                    /\ ancestors[i].name # ""}
    IN  IF hits = {} THEN 0 ELSE CHOOSE i \in hits : \A j \in hits : i <= j

\* a plausible slip: the name is taken from a value of any shape
ValueName_AnyShape(attr) == attr.exprName

\* the name whose item is looked up in the parent, "" when the value of the
\* attribute is not tracked (921-938)
ValueName(attr) ==
    IF attr.value = "JSXExpressionContainer"
       /\ attr.expr \in {"Identifier", "MemberExpression"}
    THEN attr.exprName ELSE ""

RECURSIVE attrFlows_AnyValue(_, _, _)
\* a plausible slip: the flow is pushed without the parentItem guard
attrFlows_AnyValue(attrs, parentComponent, childComponent) ==
    IF attrs = <<>> THEN <<>>
    ELSE LET attr == Head(attrs)
             c == IF attr.type = "JSXAttribute"
                  THEN FindItem(childComponent.items, attr.name,
                                {"prop", "prop-function"})
                  ELSE 0
             p == IF c = 0 \/ ValueName(attr) = "" THEN 0
                  ELSE FindItem(parentComponent.items, ValueName(attr),
                                ItemTypes)
         IN  (IF c # 0 /\ ValueName(attr) # ""
              THEN <<[id |-> attr.name \o "-flow",
                      fromItem |-> IF p # 0 THEN parentComponent.items[p].id
                                   ELSE parentComponent.name \o "-"
                                        \o ValueName(attr),
                      toItem |-> childComponent.items[c].id,
                      type |-> IF p # 0
                               THEN determineFlowType(
                                        parentComponent.items[p].type,
                                        childComponent.items[c].type)
                               ELSE "data-flow"]>>
              ELSE <<>>)
             \o attrFlows_AnyValue(Tail(attrs), parentComponent,
                                   childComponent)

RECURSIVE attrFlows(_, _, _)
\* openingElement.attributes.forEach (903-955)
attrFlows(attrs, parentComponent, childComponent) ==
    IF attrs = <<>> THEN <<>>
    ELSE LET attr == Head(attrs)
             c == IF attr.type = "JSXAttribute"
                  THEN FindItem(childComponent.items, attr.name,
                                {"prop", "prop-function"})
                  ELSE 0
             p == IF c = 0 \/ ValueName(attr) = "" THEN 0
                  ELSE FindItem(parentComponent.items, ValueName(attr),
                                ItemTypes)
         IN  (IF c # 0 /\ p # 0
              THEN <<[id |-> attr.name \o "-flow",
                      fromItem |-> parentComponent.items[p].id,
                      toItem |-> childComponent.items[c].id,
                      type |-> determineFlowType(
                                   parentComponent.items[p].type,
                                   childComponent.items[c].type)]>>
              ELSE <<>>)
             \o attrFlows(Tail(attrs), parentComponent, childComponent)

\* the JSXElement visitor on one element (869-957): [flows, log]
elementFlows(u, filePath, map) ==
    LET none == [flows |-> <<>>, log |-> <<>>]
        a    == ParentAncestor(u.ancestors)
    IN  IF ~u.identifierTag \/ ~StartsUpper(u.tag) \/ ~MapHas(map, u.tag)
        THEN none
        ELSE IF a = 0 \/ ~MapHas(map, u.ancestors[a].name) THEN none
        ELSE LET parentComponent == MapGet(map, u.ancestors[a].name)
                 childComponent  == MapGet(map, u.tag)
                 fl == attrFlows(u.attributes, parentComponent,
                                 childComponent)
             IN  [flows |-> fl,
                  log |-> <<Entry("jsx", filePath,
                                  parentComponent.name \o " renders "
                                      \o childComponent.name)>>
                          \o [i \in 1..Len(fl) |->
                                 Entry("flow", filePath, fl[i].id)]]

RECURSIVE fileFlows(_, _, _)
\* the traversal of one file: its elements in document order
fileFlows(uses, filePath, map) ==
    IF uses = <<>> THEN [flows |-> <<>>, log |-> <<>>]
    ELSE LET h == elementFlows(Head(uses), filePath, map)
             t == fileFlows(Tail(uses), filePath, map)
         IN  [flows |-> h.flows \o t.flows, log |-> h.log \o t.log]

RECURSIVE analyzeJSXFlows(_, _, _)
\* the loop over reactFiles; a file that cannot be read or parsed leaves the
\* try block for the catch clause (960-962)
analyzeJSXFlows(fs, files, map) ==
    IF files = <<>> THEN [flows |-> <<>>, log |-> <<>>]
    ELSE LET filePath == Head(files)
             text == fs.content[filePath]
             h == IF ~IsFile(fs, filePath) \/ ~text.readable \/ ~text.parses
                  THEN [flows |-> <<>>,
                        log |-> <<Entry("flowError", filePath, "")>>]
                  ELSE fileFlows(text.jsx, filePath, map)
             t == analyzeJSXFlows(fs, Tail(files), map)
         IN  [flows |-> h.flows \o t.flows, log |-> h.log \o t.log]

-----------------------------------------------------------------------------
(* detectConflicts (977-1007), layoutComponents (1057-1067).               *)

LowerOf == [c \in UpperCase |->
    CASE c = "A" -> "a" [] c = "B" -> "b" [] c = "C" -> "c" [] c = "D" -> "d"
      [] c = "E" -> "e" [] c = "F" -> "f" [] c = "G" -> "g" [] c = "H" -> "h"
      [] c = "I" -> "i" [] c = "J" -> "j" [] c = "K" -> "k" [] c = "L" -> "l"
      [] c = "M" -> "m" [] c = "N" -> "n" [] c = "O" -> "o" [] c = "P" -> "p"
      [] c = "Q" -> "q" [] c = "R" -> "r" [] c = "S" -> "s" [] c = "T" -> "t"
      [] c = "U" -> "u" [] c = "V" -> "v" [] c = "W" -> "w" [] c = "X" -> "x"
      [] c = "Y" -> "y" [] c = "Z" -> "z"]

RECURSIVE toLowerCase(_)
toLowerCase(s) ==
    IF s = "" THEN ""
    ELSE (IF Char(s, 1) \in UpperCase THEN LowerOf[Char(s, 1)]
          ELSE Char(s, 1))
         \o toLowerCase(SubSeq(s, 2, Len(s)))

\* s.replace(/^(get|set|use)/, '')
StripPrefix(s) ==
    IF StartsWith(s, "get") \/ StartsWith(s, "set") \/ StartsWith(s, "use")
    THEN SubSeq(s, 4, Len(s)) ELSE s

\* s.replace(/^(get|set|use)|\(\)$/g, '')
StripPrefixAndCall(s) ==
    LET t == StripPrefix(s)
    IN  IF EndsWith(t, "()") THEN SubSeq(t, 1, Len(t) - 2) ELSE t

\* the predicate of contextConsumers.find (986-991)
Similar(prop, ctx) ==
    LET propBase == toLowerCase(StripPrefix(prop.name))
        ctxBase  == toLowerCase(StripPrefixAndCall(ctx.name))
    IN  \/ propBase = ctxBase
        \/ Includes(propBase, ctxBase)
        \/ Includes(ctxBase, propBase)

RECURSIVE propConflicts(_, _, _, _)
\* props.forEach of one component, conflicts being the array so far
propConflicts(component, props, contextConsumers, conflicts) ==
    IF props = <<>> THEN conflicts
    ELSE LET prop == Head(props)
             hits == {i \in 1..Len(contextConsumers) :
                         Similar(prop, contextConsumers[i])}
             conflictId == component.name \o "-" \o prop.name \o "-conflict"
             next ==
                 IF hits = {} \/ \E i \in 1..Len(conflicts) :
                                    conflicts[i].id = conflictId
                 THEN conflicts
                 ELSE LET k == CHOOSE i \in hits : \A j \in hits : i <= j
                      IN  Append(conflicts,
                              [id |-> conflictId,
                               items |-> <<prop.id,
                                           contextConsumers[k].id>>])
         IN  propConflicts(component, Tail(props), contextConsumers, next)

RECURSIVE conflictsFrom(_, _)
conflictsFrom(comps, conflicts) ==
    IF comps = <<>> THEN conflicts
    ELSE LET component == Head(comps)
             props == SelectSeq(component.items,
                                LAMBDA it : it.type = "prop")
             contextConsumers ==
                 SelectSeq(component.items,
                           LAMBDA it : it.type = "context-consumer")
         IN  conflictsFrom(Tail(comps),
                 propConflicts(component, props, contextConsumers,
                               conflicts))

detectConflicts(comps) == conflictsFrom(comps, <<>>)

\* Math.ceil(Math.sqrt(n))
CeilSqrt(n) == CHOOSE k \in 0..n : k * k >= n /\ (k = 0 \/ (k - 1) * (k - 1) < n)

\* layoutComponents without the spacing between the cells of the grid
layoutComponents_NoSpacing(comps) ==
    LET cols == CeilSqrt(Len(comps))
        spacing == 0
    IN  [i \in 1..Len(comps) |->
            [comps[i] EXCEPT
                !.x = ((i - 1) % cols) * (comps[i].width + spacing) + 50,
                !.y = ((i - 1) \div cols) * (comps[i].height + spacing) + 50]]

\* layoutComponents with the column and the row of a component exchanged
layoutComponents_ColumnMajor(comps) ==
    LET cols == CeilSqrt(Len(comps))
        spacing == 50
    IN  [i \in 1..Len(comps) |->
            [comps[i] EXCEPT
                !.x = ((i - 1) \div cols) * (comps[i].width + spacing) + 50,
                !.y = ((i - 1) % cols) * (comps[i].height + spacing) + 50]]

layoutComponents(comps) ==
    LET cols == CeilSqrt(Len(comps))
        spacing == 50
    IN  [i \in 1..Len(comps) |->
            [comps[i] EXCEPT
                !.x = ((i - 1) % cols) * (comps[i].width + spacing) + 50,
                !.y = ((i - 1) \div cols) * (comps[i].height + spacing) + 50]]

-----------------------------------------------------------------------------
(* The projects analysed.                                                  *)

\* what the bodies nested in a declaration hold when it nests none
NoInner == [hasJSX |-> FALSE, returnStatements |-> 0]

Decl(node, exported, name, init, hasJSX, returnStatements, body, params) ==
    [node |-> node, exported |-> exported, name |-> name, init |-> init,
     hasJSX |-> hasJSX, returnStatements |-> returnStatements,
     inner |-> NoInner, superClass |-> "", body |-> body,
     params |-> params, propsUsage |-> <<>>, methods |-> <<>>]

\* { name } of an object pattern, key being the node type of the key
Key(key, name) == [type |-> "ObjectProperty", key |-> key, name |-> name]

\* ...name of an object pattern
Rest(name) == [type |-> "RestElement", key |-> "Identifier", name |-> name]

ObjectPattern(properties) ==
    [type |-> "ObjectPattern", name |-> "", properties |-> properties]

Param(name) == [type |-> "Identifier", name |-> name, properties |-> <<>>]

Text(imports, decls, jsx) ==
    [readable |-> TRUE, parses |-> TRUE, imports |-> imports,
     decls |-> decls, jsx |-> jsx]

Attr(name, value, expr, exprName) ==
    [type |-> "JSXAttribute", name |-> name, value |-> value, expr |-> expr,
     exprName |-> exprName]

\* import <child> from '<source>';
\* export function <name>({title}) {
\*   const [count, setCount] = useState(0);
\*   return <child value={count} label={title} size="s" />; }
TextParent(name, child, source) ==
    Text(<<[stmt |-> "import", source |-> source,
            specifiers |-> <<[type |-> "ImportDefaultSpecifier",
                              name |-> child]>>]>>,
         <<Decl("FunctionDeclaration", "named", name, "", TRUE, 1,
                <<[kind |-> "useState", declarator |-> "ArrayPattern",
                   elements |-> <<"count", "setCount">>]>>,
                <<ObjectPattern(<<Key("Identifier", "title")>>)>>)>>,
         <<[tag |-> child, identifierTag |-> TRUE,
            ancestors |-> <<[type |-> "ReturnStatement", name |-> ""],
                            [type |-> "BlockStatement", name |-> ""],
                            [type |-> "FunctionDeclaration", name |-> name],
                            [type |-> "ExportNamedDeclaration", name |-> ""],
                            [type |-> "Program", name |-> ""]>>,
            attributes |->
                <<Attr("value", "JSXExpressionContainer", "Identifier",
                       "count"),
                  Attr("label", "JSXExpressionContainer", "Identifier",
                       "title"),
                  Attr("size", "StringLiteral", "", "")>>]>>)

\* function helper() { return 1; }
\* const <name> = ({value, label}) => <button>{label}</button>;
\* export default <name>;
TextChild(name) ==
    Text(<<>>,
         <<Decl("FunctionDeclaration", "", "helper", "", FALSE, 1, <<>>,
                <<>>),
           Decl("VariableDeclarator", "", name, "ArrowFunctionExpression",
                TRUE, 0, <<>>,
                <<ObjectPattern(<<Key("Identifier", "value"),
                                  Key("Identifier", "label")>>)>>)>>,
         <<[tag |-> "button", identifierTag |-> TRUE,
            ancestors |-> <<[type |-> "ArrowFunctionExpression",
                             name |-> ""],
                            [type |-> "VariableDeclarator", name |-> name],
                            [type |-> "VariableDeclaration", name |-> ""],
                            [type |-> "Program", name |-> ""]>>,
            attributes |-> <<>>]>>)

\* export { Button } from '<source>';
TextReExport(source) ==
    Text(<<[stmt |-> "export", source |-> source,
            specifiers |-> <<[type |-> "ExportSpecifier",
                              name |-> "Button"]>>]>>,
         <<>>, <<>>)

\* import React from 'react';
\* import Button, { Icon } from '<source>';
\* export const helper = () => 1;
TextImportTwo(source) ==
    Text(<<[stmt |-> "import", source |-> "react",
            specifiers |-> <<[type |-> "ImportDefaultSpecifier",
                              name |-> "React"]>>],
           [stmt |-> "import", source |-> source,
            specifiers |-> <<[type |-> "ImportDefaultSpecifier",
                              name |-> "Button"],
                             [type |-> "ImportSpecifier",
                              name |-> "Icon"]>>]>>,
         <<Decl("VariableDeclarator", "named", "helper",
                "ArrowFunctionExpression", FALSE, 0, <<>>, <<>>)>>,
         <<>>)

\* export function helper() { return <div />; }
\* const render = () => <span />;
\* export const widget = function () { return <i />; };
\* export default function main() { return <p />; }
TextLower ==
    Text(<<>>,
         <<Decl("FunctionDeclaration", "named", "helper", "", TRUE, 1, <<>>,
                <<>>),
           Decl("VariableDeclarator", "", "render",
                "ArrowFunctionExpression", TRUE, 0, <<>>, <<>>),
           Decl("VariableDeclarator", "named", "widget",
                "FunctionExpression", TRUE, 1, <<>>, <<>>),
           Decl("FunctionDeclaration", "default", "main", "", TRUE, 1, <<>>,
                <<>>)>>,
         <<>>)

\* export default () => { return 42; };
TextAnonDefault ==
    Text(<<>>,
         <<Decl("ExportDefaultExpression", "default", "",
                "ArrowFunctionExpression", FALSE, 1, <<>>, <<>>)>>,
         <<>>)

\* function Store() { function inner() { return <div />; } }
\* const Api = () => { const get = () => { return 1; }; };
TextNested ==
    Text(<<>>,
         <<[Decl("FunctionDeclaration", "", "Store", "", FALSE, 0,
                 <<[kind |-> "FunctionDeclaration", declarator |-> "",
                    elements |-> <<"inner">>]>>, <<>>)
               EXCEPT !.inner = [hasJSX |-> TRUE, returnStatements |-> 1]],
           Decl("FunctionDeclaration", "", "inner", "", TRUE, 1, <<>>,
                <<>>),
           [Decl("VariableDeclarator", "", "Api", "ArrowFunctionExpression",
                 FALSE, 0,
                 <<[kind |-> "ArrowVariable", declarator |-> "",
                    elements |-> <<"get">>]>>, <<>>)
               EXCEPT !.inner = [hasJSX |-> FALSE, returnStatements |-> 1]],
           Decl("VariableDeclarator", "", "get", "ArrowFunctionExpression",
                FALSE, 1, <<>>, <<>>)>>,
         <<>>)

\* function Card({title, onClick, 'aria-label': label, ...rest}) {
\*   return <div>{title}</div>; }
\* function Panel(props) {
\*   return <div>{props.title}{props.size}{props.title}</div>; }
\* function Plain(data) { return <div>{data.title}</div>; }
TextProps ==
    Text(<<>>,
         <<Decl("FunctionDeclaration", "", "Card", "", TRUE, 1, <<>>,
                <<ObjectPattern(<<Key("Identifier", "title"),
                                  Key("Identifier", "onClick"),
                                  Key("StringLiteral", "aria-label"),
                                  Rest("rest")>>)>>),
           [Decl("FunctionDeclaration", "", "Panel", "", TRUE, 1, <<>>,
                 <<Param("props")>>)
               EXCEPT !.propsUsage = <<"title", "size", "title">>],
           Decl("FunctionDeclaration", "", "Plain", "", TRUE, 1, <<>>,
                <<Param("data")>>)>>,
         <<>>)

\* import Button from '<source>';
\* export function Page({value}) {
\*   const el = <Button value={value} />;
\*   return el; }
TextVarJSX(source) ==
    Text(<<[stmt |-> "import", source |-> source,
            specifiers |-> <<[type |-> "ImportDefaultSpecifier",
                              name |-> "Button"]>>]>>,
         <<Decl("FunctionDeclaration", "named", "Page", "", TRUE, 1, <<>>,
                <<ObjectPattern(<<Key("Identifier", "value")>>)>>),
           Decl("VariableDeclarator", "", "el", "JSXElement", FALSE, 0,
                <<>>, <<>>)>>,
         <<[tag |-> "Button", identifierTag |-> TRUE,
            ancestors |-> <<[type |-> "VariableDeclarator", name |-> "el"],
                            [type |-> "VariableDeclaration", name |-> ""],
                            [type |-> "BlockStatement", name |-> ""],
                            [type |-> "FunctionDeclaration",
                             name |-> "Page"],
                            [type |-> "ExportNamedDeclaration", name |-> ""],
                            [type |-> "Program", name |-> ""]>>,
            attributes |->
                <<Attr("value", "JSXExpressionContainer", "Identifier",
                       "value")>>]>>)

\* import Button from '<source>';
\* export class Board extends React.Component {
\*   label() { return 'x'; }
\*   render() { return <Button label={this.label} />; } }
TextClassParent(source) ==
    Text(<<[stmt |-> "import", source |-> source,
            specifiers |-> <<[type |-> "ImportDefaultSpecifier",
                              name |-> "Button"]>>]>>,
         <<[Decl("ClassDeclaration", "named", "Board", "", FALSE, 0, <<>>,
                 <<>>)
               EXCEPT !.superClass = "React.Component",
                      !.methods = <<"label", "render">>]>>,
         <<[tag |-> "Button", identifierTag |-> TRUE,
            ancestors |-> <<[type |-> "ReturnStatement", name |-> ""],
                            [type |-> "BlockStatement", name |-> ""],
                            [type |-> "ClassMethod", name |-> "render"],
                            [type |-> "ClassBody", name |-> ""],
                            [type |-> "ClassDeclaration", name |-> "Board"],
                            [type |-> "ExportNamedDeclaration", name |-> ""],
                            [type |-> "Program", name |-> ""]>>,
            attributes |->
                <<Attr("label", "JSXExpressionContainer",
                       "MemberExpression", "label")>>]>>)

\* class Plain { render() {..} }
\* class Other extends Base { render() {..} }
\* class View extends Preact.Component { constructor() {..} render() {..} }
\* class Form extends Component { constructor() {..} submit() {..}
\*   reset() {..} render() {..} }
\* class Mixed extends mixin(Component) { render() {..} }
TextClasses ==
    LET class(name, superClass, methods) ==
            [Decl("ClassDeclaration", "", name, "", FALSE, 0, <<>>, <<>>)
                EXCEPT !.superClass = superClass, !.methods = methods]
    IN  Text(<<>>,
             <<class("Plain", "", <<"render">>),
               class("Other", "Base", <<"render">>),
               class("View", "Preact.Component", <<"constructor", "render">>),
               class("Form", "Component",
                     <<"constructor", "submit", "reset", "render">>),
               class("Mixed", "mixin(Component)", <<"render">>)>>,
             <<>>)

\* import Button from '<source>';
\* export function Form({title, value, onSave}) {
\*   return <div>
\*     <Button label={title} value="title" {...rest} />
\*     <Button label={fmt(value)} value />
\*     <Button value={form.value} label={`${value}`} />
\*   </div>; }
\* exprName is the name the value mentions, whatever its shape
TextAttrs(source) ==
    LET inForm(attributes) ==
            [tag |-> "Button", identifierTag |-> TRUE,
             ancestors |-> <<[type |-> "JSXElement", name |-> ""],
                             [type |-> "ReturnStatement", name |-> ""],
                             [type |-> "BlockStatement", name |-> ""],
                             [type |-> "FunctionDeclaration",
                              name |-> "Form"],
                             [type |-> "ExportNamedDeclaration",
                              name |-> ""],
                             [type |-> "Program", name |-> ""]>>,
             attributes |-> attributes]
    IN  Text(<<[stmt |-> "import", source |-> source,
                specifiers |-> <<[type |-> "ImportDefaultSpecifier",
                                  name |-> "Button"]>>]>>,
             <<Decl("FunctionDeclaration", "named", "Form", "", TRUE, 1,
                    <<>>,
                    <<ObjectPattern(<<Key("Identifier", "title"),
                                      Key("Identifier", "value"),
                                      Key("Identifier", "onSave")>>)>>)>>,
             <<inForm(<<Attr("label", "JSXExpressionContainer",
                             "Identifier", "title"),
                        Attr("value", "StringLiteral", "", "title"),
                        [Attr("", "", "", "rest")
                            EXCEPT !.type = "JSXSpreadAttribute"]>>),
               inForm(<<Attr("label", "JSXExpressionContainer",
                             "CallExpression", "value"),
                        Attr("value", "", "", "")>>),
               inForm(<<Attr("value", "JSXExpressionContainer",
                             "MemberExpression", "value"),
                        Attr("label", "JSXExpressionContainer",
                             "TemplateLiteral", "value")>>)>>)

\* function Counter({step}) {
\*   const [n, setN] = useState(0);
\*   const inc = () => setN(n + step);
\*   return <button onClick={inc}>{n}</button>; }
TextHooks ==
    Text(<<>>,
         <<Decl("FunctionDeclaration", "", "Counter", "", TRUE, 1,
                <<[kind |-> "useState", declarator |-> "ArrayPattern",
                   elements |-> <<"n", "setN">>],
                  [kind |-> "ArrowVariable", declarator |-> "",
                   elements |-> <<"inc">>]>>,
                <<ObjectPattern(<<Key("Identifier", "step")>>)>>),
           Decl("VariableDeclarator", "", "inc", "ArrowFunctionExpression",
                FALSE, 0, <<>>, <<>>)>>,
         <<>>)

\* function Outer({kind}) {
\*   function Inner({size}) {
\*     const [v, setV] = useState(0);
\*     return <i>{v}</i>; }
\*   return <Inner size={kind} />; }
\* the body of Outer lists what a traversal of Outer meets, the hook of
\* Inner included
TextInner ==
    LET hook == [kind |-> "useState", declarator |-> "ArrayPattern",
                 elements |-> <<"v", "setV">>]
        outer == <<[type |-> "ReturnStatement", name |-> ""],
                   [type |-> "BlockStatement", name |-> ""],
                   [type |-> "FunctionDeclaration", name |-> "Outer"],
                   [type |-> "Program", name |-> ""]>>
    IN  Text(<<>>,
             <<[Decl("FunctionDeclaration", "", "Outer", "", TRUE, 1,
                     <<[kind |-> "FunctionDeclaration", declarator |-> "",
                        elements |-> <<"Inner">>],
                       hook>>,
                     <<ObjectPattern(<<Key("Identifier", "kind")>>)>>)
                   EXCEPT !.inner = [hasJSX |-> TRUE,
                                     returnStatements |-> 1]],
               Decl("FunctionDeclaration", "", "Inner", "", TRUE, 1,
                    <<hook>>,
                    <<ObjectPattern(<<Key("Identifier", "size")>>)>>)>>,
             <<[tag |-> "i", identifierTag |-> TRUE,
                ancestors |-> <<[type |-> "ReturnStatement", name |-> ""],
                                [type |-> "BlockStatement", name |-> ""],
                                [type |-> "FunctionDeclaration",
                                 name |-> "Inner"],
                                [type |-> "BlockStatement", name |-> ""],
                                [type |-> "FunctionDeclaration",
                                 name |-> "Outer"],
                                [type |-> "Program", name |-> ""]>>,
                attributes |-> <<>>],
               [tag |-> "Inner", identifierTag |-> TRUE,
                ancestors |-> outer,
                attributes |->
                    <<Attr("size", "JSXExpressionContainer", "Identifier",
                           "kind")>>]>>)

\* a text the parser rejects
TextBad == [Text(<<>>, <<>>, <<>>) EXCEPT !.parses = FALSE]

\* a file readFileSync throws on
TextUnreadable == [Text(<<>>, <<>>, <<>>) EXCEPT !.readable = FALSE]

TextsA == {TextParent("App", "Button", "./b"), TextReExport("./b"),
           TextImportTwo("./b"), TextBad}

TextsB == {TextChild("Button"), TextReExport("./c"), TextBad,
           TextUnreadable}

TextsC == {TextChild("Button"), TextReExport("./b"),
           TextParent("Card", "Button", "./b"), TextReExport("./a")}

\* the texts of a.tsx beside a b.tsx and a c.tsx that declare a component
TextsD == {TextLower, TextAnonDefault, TextNested, TextProps,
           TextVarJSX("./b"), TextClassParent("./b"), TextClasses,
           TextAttrs("./b"), TextHooks, TextInner}

Listings == {<<"a.tsx", "b.tsx", "c.tsx">>,
             <<"c.tsx", "d", "b.tsx", "a.tsx">>}

\* the directory /w with the sources a.tsx, b.tsx, c.tsx and, when listed,
\* the directory d that cannot be read
RunFileSystems ==
    {[dirs     |-> ("/w" :> listing) @@ ("/w/d" :> <<>>),
      files    |-> {"/w/a.tsx", "/w/b.tsx", "/w/c.tsx"},
      statFail |-> {},
      listFail |-> {"/w/d"},
      content  |-> ("/w/a.tsx" :> ta) @@ ("/w/b.tsx" :> tb)
                   @@ ("/w/c.tsx" :> tc)] :
        listing \in Listings, ta \in TextsA, tb \in TextsB, tc \in TextsC}
    \cup
    {[dirs     |-> ("/w" :> <<"a.tsx", "b.tsx", "c.tsx">>) @@ ("/w/d" :> <<>>),
      files    |-> {"/w/a.tsx", "/w/b.tsx", "/w/c.tsx"},
      statFail |-> {},
      listFail |-> {"/w/d"},
      content  |-> ("/w/a.tsx" :> ta) @@ ("/w/b.tsx" :> TextChild("Button"))
                   @@ ("/w/c.tsx" :> tc)] :
        ta \in TextsD, tc \in {TextChild("Button"), TextChild("Icon")}}
    \cup
    {[dirs     |-> ("/w" :> <<"a.tsx", "b.tsx", "c.tsx">>) @@ ("/w/d" :> <<>>),
      files    |-> {"/w/a.tsx", "/w/b.tsx", "/w/c.tsx"},
      statFail |-> {},
      listFail |-> {"/w/d"},
      content  |-> ("/w/a.tsx" :> TextReExport("./b")) @@ ("/w/b.tsx" :> tb)
                   @@ ("/w/c.tsx" :> TextChild("Icon"))] :
        tb \in {TextInner}}

\* the paths analyzeReactProject is called with
Roots == {"/w", "/w/a.tsx", "/gone"}

-----------------------------------------------------------------------------
(* analyzeReactProject (61-114) and analyzeFile (153-384) as the steps of  *)
(* a call between two awaits.  The engine is single-threaded: active is    *)
(* the call that holds the thread; at an await the call gives it up and    *)
(* any suspended call may take it.                                         *)

Calls == 1..MaxCalls

Top(c) == stack[c][Len(stack[c])]

Pop(c) == SubSeq(stack[c], 1, Len(stack[c]) - 1)

\* this.debugInfo.<field>.push(...entries), by call c
Push(h, field, entries, c) ==
    [h EXCEPT ![thisDebug][field] = @ \o Tagged(entries, c)]

\* this.debugInfo.filesAnalyzed.includes(sourcePath)
Visited(sourcePath) ==
    \E i \in 1..Len(heap[thisDebug].filesAnalyzed) :
        heap[thisDebug].filesAnalyzed[i].path = sourcePath

NoRet == [threw |-> FALSE, comps |-> <<>>]

NoResult == [components |-> <<>>, flows |-> <<>>, conflicts |-> <<>>,
             debug |-> 0]

\* a fresh activation of analyzeFile
Frame(filePath) ==
    [file |-> filePath, comps |-> <<>>, imports |-> <<>>, k |-> 1,
     follow |-> FALSE]

\* analyzeReactProject up to `await this.findReactFiles(projectPath)`:
\* this.debugInfo is replaced by a new object and findReactFiles runs
Start(c, projectPath) ==
    /\ active = 0
    /\ pc[c] = "idle"
    /\ \A d \in Calls : d < c => pc[d] # "idle"
    /\ LET found == findReactFiles(fsys, projectPath)
           fresh == [EmptyDebug EXCEPT
                        !.analysisLog =
                            Tagged(<<Entry("start", projectPath, "")>>, c),
                        !.parseErrors =
                            Tagged([i \in 1..Len(found.parseErrors) |->
                                       Entry("readdir", found.parseErrors[i],
                                             "")], c)]
       IN  /\ heap' = Append(heap, fresh)
           /\ thisDebug' = Len(heap) + 1
           /\ reactFiles' = [reactFiles EXCEPT ![c] = found.reactFiles]
           /\ ret' = [ret EXCEPT ![c] = [threw |-> found.threw,
                                         comps |-> <<>>]]
    /\ root' = [root EXCEPT ![c] = projectPath]
    /\ pc' = [pc EXCEPT ![c] = "awaitFind"]
    /\ active' = 0
    /\ UNCHANGED <<extVars, fsys, probe, idx, components, componentMap, stack, flows,
                   result, analyzeFileCalls>>

\* the await of findReactFiles settles: the rejection leaves the call, the
\* list of files enters the for loop
ResumeFind(c) ==
    /\ active = 0
    /\ pc[c] = "awaitFind"
    /\ IF ret[c].threw
       THEN /\ pc' = [pc EXCEPT ![c] = "rejected"]
            /\ active' = 0
            /\ UNCHANGED heap
       ELSE /\ pc' = [pc EXCEPT ![c] = "loop"]
            /\ active' = c
            /\ heap' = Push(heap, "analysisLog",
                            <<Entry("found", root[c], "")>>, c)
    /\ ret' = [ret EXCEPT ![c] = NoRet]
    /\ UNCHANGED <<extVars, fsys, probe, thisDebug, root, reactFiles, idx, components,
                   componentMap, stack, flows, result, analyzeFileCalls>>

\* the head of one iteration of the for loop (77-81), or, past the last
\* file, lines 99-102 up to `await this.analyzeJSXFlows(...)`
LoopIter(c) ==
    /\ active = c
    /\ pc[c] = "loop"
    /\ IF idx[c] <= Len(reactFiles[c])
       THEN LET filePath == reactFiles[c][idx[c]]
            IN  /\ heap' = Push(Push(heap, "filesAnalyzed",
                                     <<Entry("file", filePath, "")>>, c),
                                "analysisLog",
                                <<Entry("analyzing", filePath, "")>>, c)
                /\ stack' = [stack EXCEPT ![c] = <<Frame(filePath)>>]
                /\ analyzeFileCalls' =
                       [analyzeFileCalls EXCEPT ![c] = Append(@, filePath)]
                /\ pc' = [pc EXCEPT ![c] = "enter"]
                /\ active' = c
                /\ UNCHANGED flows
       ELSE LET fl == analyzeJSXFlows(fsys, reactFiles[c], componentMap[c])
            IN  /\ heap' = Push(heap, "analysisLog",
                                <<Entry("total", root[c], "")>> \o fl.log, c)
                /\ flows' = [flows EXCEPT ![c] = fl.flows]
                /\ pc' = [pc EXCEPT ![c] = "awaitFlows"]
                /\ active' = 0
                /\ UNCHANGED <<stack, analyzeFileCalls>>
    /\ UNCHANGED <<extVars, fsys, probe, thisDebug, root, reactFiles, idx, components,
                   componentMap, ret, result>>

\* the body of analyzeFile up to the follow loop (154-366): read, parse,
\* collect the imports, classify the declarations
EnterFile(c) ==
    /\ active = c
    /\ pc[c] = "enter"
    /\ LET filePath == Top(c).file
           text     == fsys.content[filePath]
       IN  IF ~IsFile(fsys, filePath) \/ ~text.readable
           THEN \* readFileSync throws: the promise of this activation is
                \* rejected and the caller's await resumes with it
                /\ stack' = [stack EXCEPT ![c] = Pop(c)]
                /\ ret' = [ret EXCEPT ![c] = [threw |-> TRUE,
                                              comps |-> <<>>]]
                /\ pc' = [pc EXCEPT ![c] = "awaitFile"]
                /\ active' = 0
                /\ UNCHANGED heap
           ELSE LET comps   == IF text.parses
                               THEN fileComponents(text.decls, filePath)
                               ELSE <<>>
                    imports == IF text.parses
                               THEN collectImports(fsys, filePath,
                                                   text.imports)
                               ELSE <<>>
                    log     == <<Entry("reading", filePath, "")>>
                               \o (IF text.parses
                                   THEN <<Entry("parsed", filePath, "")>>
                                        \o classifyLog(text.decls, filePath)
                                   ELSE <<>>)
                               \o <<Entry("count", filePath, "")>>
                    errors  == IF text.parses THEN <<>>
                               ELSE <<Entry("parse", filePath, "")>>
                IN  /\ heap' = Push(Push(heap, "analysisLog", log, c),
                                    "parseErrors", errors, c)
                    /\ stack' = [stack EXCEPT ![c][Len(stack[c])] =
                                    [file |-> filePath, comps |-> comps,
                                     imports |-> imports, k |-> 1,
                                     follow |-> Len(comps) = 0
                                                /\ Len(imports) > 0]]
                    /\ pc' = [pc EXCEPT ![c] = "follow"]
                    /\ active' = c
                    /\ UNCHANGED ret
    /\ UNCHANGED <<extVars, fsys, probe, thisDebug, root, reactFiles, idx, components,
                   componentMap, flows, result, analyzeFileCalls>>

\* one iteration of the loop over importedComponents (369-380) up to the
\* call of analyzeFile; at MaxDepth activations the call exhausts the stack
\* and the RangeError lands in the catch clause of line 376
Follow(c) ==
    /\ active = c
    /\ pc[c] = "follow"
    /\ Top(c).follow
    /\ Top(c).k <= Len(Top(c).imports)
    /\ LET sourcePath == Top(c).imports[Top(c).k].value
           name       == Top(c).imports[Top(c).k].key
           skip       == [stack EXCEPT ![c][Len(stack[c])].k = @ + 1]
           following  == <<Entry("following", sourcePath, name)>>
       IN  IF existsSync(fsys, sourcePath) /\ ~Visited(sourcePath)
           THEN IF Len(stack[c]) >= MaxDepth
                THEN /\ heap' = Push(heap, "analysisLog", following
                            \o <<Entry("followError", sourcePath, name)>>, c)
                     /\ stack' = skip
                     /\ pc' = pc
                     /\ UNCHANGED analyzeFileCalls
                ELSE /\ heap' = Push(heap, "analysisLog", following, c)
                     /\ stack' = [stack EXCEPT ![c] =
                                     Append(@, Frame(sourcePath))]
                     /\ analyzeFileCalls' =
                            [analyzeFileCalls EXCEPT
                                ![c] = Append(@, sourcePath)]
                     /\ pc' = [pc EXCEPT ![c] = "enter"]
           ELSE /\ heap' = Push(heap, "analysisLog", following, c)
                /\ stack' = skip
                /\ pc' = pc
                /\ UNCHANGED analyzeFileCalls
    /\ active' = c
    /\ UNCHANGED <<extVars, fsys, probe, thisDebug, root, reactFiles, idx, components,
                   componentMap, ret, flows, result>>

\* `return components` of analyzeFile (383): the promise of the activation
\* is fulfilled and the caller's await resumes with it
Return(c) ==
    /\ active = c
    /\ pc[c] = "follow"
    /\ ~Top(c).follow \/ Top(c).k > Len(Top(c).imports)
    /\ ret' = [ret EXCEPT ![c] = [threw |-> FALSE, comps |-> Top(c).comps]]
    /\ stack' = [stack EXCEPT ![c] = Pop(c)]
    /\ pc' = [pc EXCEPT ![c] = "awaitFile"]
    /\ active' = 0
    /\ UNCHANGED <<extVars, fsys, probe, heap, thisDebug, root, reactFiles, idx,
                   components, componentMap, flows, result,
                   analyzeFileCalls>>

\* the entries of componentsFound for the components of one file (89-91)
foundEntries(comps) ==
    [i \in 1..Len(comps) |-> Entry("component", comps[i].filePath,
                                   comps[i].name)]

\* the await of analyzeFile settles, in the for loop of analyzeReactProject
\* (82-96) or in the follow loop of the calling activation (374-378)
ResumeFile(c) ==
    /\ active = 0
    /\ pc[c] = "awaitFile"
    /\ IF stack[c] = <<>>
       THEN /\ IF ret[c].threw
               THEN /\ heap' = Push(heap, "parseErrors",
                                <<Entry("analyze", reactFiles[c][idx[c]],
                                        "")>>, c)
                    /\ UNCHANGED <<components, componentMap>>
               ELSE /\ heap' = Push(heap, "componentsFound",
                                    foundEntries(ret[c].comps), c)
                    /\ components' = [components EXCEPT
                                         ![c] = @ \o ret[c].comps]
                    /\ componentMap' = [componentMap EXCEPT
                                           ![c] = MapSetAll(@, ret[c].comps)]
            /\ idx' = [idx EXCEPT ![c] = @ + 1]
            /\ pc' = [pc EXCEPT ![c] = "loop"]
            /\ UNCHANGED stack
       ELSE /\ IF ret[c].threw
               THEN /\ heap' = Push(heap, "analysisLog",
                                <<Entry("followError",
                                        Top(c).imports[Top(c).k].value,
                                        Top(c).imports[Top(c).k].key)>>, c)
                    /\ stack' = [stack EXCEPT ![c][Len(stack[c])].k = @ + 1]
               ELSE /\ stack' = [stack EXCEPT
                                    ![c][Len(stack[c])].k = @ + 1,
                                    ![c][Len(stack[c])].comps =
                                        @ \o ret[c].comps]
                    /\ UNCHANGED heap
            /\ pc' = [pc EXCEPT ![c] = "follow"]
            /\ UNCHANGED <<idx, components, componentMap>>
    /\ ret' = [ret EXCEPT ![c] = NoRet]
    /\ active' = c
    /\ UNCHANGED <<extVars, fsys, probe, thisDebug, root, reactFiles, flows, result,
                   analyzeFileCalls>>

\* the await of analyzeJSXFlows settles: lines 103-113
ResumeFlows(c) ==
    /\ active = 0
    /\ pc[c] = "awaitFlows"
    /\ heap' = Push(heap, "analysisLog",
                    <<Entry("generated", root[c], "")>>, c)
    /\ result' = [result EXCEPT ![c] =
                     [components |-> layoutComponents(components[c]),
                      flows      |-> flows[c],
                      conflicts  |-> detectConflicts(components[c]),
                      debug      |-> thisDebug]]
    /\ pc' = [pc EXCEPT ![c] = "done"]
    /\ active' = 0
    /\ UNCHANGED <<extVars, fsys, probe, thisDebug, root, reactFiles, idx, components,
                   componentMap, stack, ret, flows, analyzeFileCalls>>

Settled(c) == pc[c] \in {"idle", "done", "rejected"}

InitRun ==
    /\ heap = <<EmptyDebug>>
    /\ thisDebug = 1
    /\ active = 0
    /\ pc = [c \in Calls |-> "idle"]
    /\ root = [c \in Calls |-> ""]
    /\ reactFiles = [c \in Calls |-> <<>>]
    /\ idx = [c \in Calls |-> 1]
    /\ components = [c \in Calls |-> <<>>]
    /\ componentMap = [c \in Calls |-> <<>>]
    /\ stack = [c \in Calls |-> <<>>]
    /\ ret = [c \in Calls |-> NoRet]
    /\ flows = [c \in Calls |-> <<>>]
    /\ result = [c \in Calls |-> NoResult]
    /\ analyzeFileCalls = [c \in Calls |-> <<>>]
    /\ currentPanel = 0
    /\ panels = <<>>
    /\ commands = <<>>
    /\ updates = <<>>

Init ==
    /\ fsys \in RunFileSystems
    /\ probe = [op |-> "none"]
    /\ InitRun

Step(c) ==
    \/ ResumeFind(c)
    \/ LoopIter(c)
    \/ EnterFile(c)
    \/ Follow(c)
    \/ Return(c)
    \/ ResumeFile(c)
    \/ ResumeFlows(c)

\* the calls made one after the other: the command handler of extension.ts
\* awaits a call before the next command starts one
Next ==
    \/ \E c \in Calls, projectPath \in Roots :
          /\ \A d \in Calls : Settled(d)
          /\ Start(c, projectPath)
    \/ \E c \in Calls : Step(c)

Spec == Init /\ [][Next]_vars

\* the calls as the class allows them: a call may start while another is
\* suspended at an await (extension.ts starts one per command and per file
\* watcher event, on the one analyzer of line 10)
OverlapFileSystems ==
    {fs \in RunFileSystems :
        /\ fs.dirs["/w"] = <<"a.tsx", "b.tsx", "c.tsx">>
        /\ fs.content["/w/a.tsx"] \in {TextParent("App", "Button", "./b"),
                                       TextReExport("./b")}
        /\ fs.content["/w/b.tsx"] \in {TextChild("Button"), TextBad}
        /\ fs.content["/w/c.tsx"] = TextChild("Button")}

InitOverlap ==
    /\ fsys \in OverlapFileSystems
    /\ probe = [op |-> "none"]
    /\ InitRun

NextOverlap ==
    \/ \E c \in Calls, projectPath \in Roots : Start(c, projectPath)
    \/ \E c \in Calls : Step(c)

SpecOverlap == InitOverlap /\ [][NextOverlap]_vars

-----------------------------------------------------------------------------
(* File discovery on its own: findReactFiles applied to directory trees.   *)

ScanRoots == {"/w/app", "/home/scout/app"}

DirEntries == {"src", "layout", ".github", "node_modules", "out"}

FileEntries == {"a.tsx", "b.js", "notes.md"}

\* what a directory of the tree holds
SubListing(name) ==
    IF name = "src" THEN <<"x.jsx", "assets", "y.ts">> ELSE <<"x.jsx">>

\* the listings of the root: three distinct entries, in any order
RootListings ==
    {l \in [1..3 -> DirEntries \cup FileEntries] :
        \A i, j \in 1..3 : i # j => l[i] # l[j]}

ScanTree(r, listing, statFail, listFail) ==
    LET ds == {listing[i] : i \in 1..3} \cap DirEntries
    IN  [dirs     |-> (r :> listing)
                      @@ [d \in {Join(r, e) : e \in ds} |->
                             SubListing(BaseName(d))]
                      @@ (IF "src" \in ds
                          THEN Join(Join(r, "src"), "assets") :> <<"z.js">>
                          ELSE <<>>),
         files    |-> {Join(r, listing[i]) :
                          i \in {j \in 1..3 : listing[j] \in FileEntries}}
                      \cup {Join(Join(r, e), "x.jsx") : e \in ds}
                      \cup (IF "src" \in ds
                            THEN {Join(Join(r, "src"), "y.ts"),
                                  Join(Join(Join(r, "src"), "assets"),
                                       "z.js")}
                            ELSE {}),
         statFail |-> statFail,
         listFail |-> listFail,
         content  |-> <<>>]

\* at most one directory of the root that statSync or readdirSync throws on
ScanFileSystems ==
    UNION {
        LET ds == {Join(r, listing[i]) : i \in 1..3}
                  \cap {Join(r, e) : e \in DirEntries}
        IN  {ScanTree(r, listing, {}, {})}
            \cup {ScanTree(r, listing, {d}, {}) : d \in ds}
            \cup {ScanTree(r, listing, {}, {d}) : d \in ds} :
        r \in ScanRoots, listing \in RootListings}

InitScan ==
    /\ fsys \in ScanFileSystems
    /\ \E r \in ScanRoots :
          /\ IsDir(fsys, r)
          /\ probe = [op |-> "findReactFiles", arg |-> r, done |-> FALSE,
                      out |-> [threw |-> FALSE, reactFiles |-> <<>>,
                               parseErrors |-> <<>>]]
    /\ InitRun

ScanStep ==
    /\ probe.op = "findReactFiles"
    /\ ~probe.done
    /\ probe' = [probe EXCEPT !.done = TRUE,
                              !.out = findReactFiles(fsys, probe.arg)]
    /\ UNCHANGED <<fsys, runVars, extVars>>

SpecScan == InitScan /\ [][ScanStep]_vars

-----------------------------------------------------------------------------
(* Import resolution on its own: resolveImportPath applied from            *)
(* /w/src/App.tsx to relative specifiers, over the sets of files present.  *)

ResolveFrom == "/w/src/App.tsx"

Specifiers == {"./Button", "./Button.styles", "./Button.tsx", "../lib/ui",
               "./ui"}

ResolveFiles == {"/w/src/Button.tsx", "/w/src/Button.ts",
                 "/w/src/Button.jsx", "/w/src/Button.js",
                 "/w/src/Button/index.ts", "/w/src/Button/index.js",
                 "/w/src/Button.styles", "/w/src/Button.styles.ts",
                 "/w/lib/ui.jsx", "/w/lib/ui/index.tsx",
                 "/w/lib/ui/index.jsx"}

ResolveFileSystems ==
    {[dirs     |-> [d \in {"/w", "/w/src", "/w/lib"}
                           \cup {DirName(f) : f \in present} |-> <<>>],
      files    |-> present \cup {ResolveFrom},
      statFail |-> {},
      listFail |-> {},
      content  |-> <<>>] : present \in SUBSET ResolveFiles}

InitResolve ==
    /\ fsys \in ResolveFileSystems
    /\ \E importPath \in Specifiers :
          probe = [op |-> "resolveImportPath", arg |-> importPath,
                   done |-> FALSE, out |-> null]
    /\ InitRun

ResolveStep ==
    /\ probe.op = "resolveImportPath"
    /\ ~probe.done
    /\ probe' = [probe EXCEPT
                    !.done = TRUE,
                    !.out = resolveImportPath(fsys, ResolveFrom, probe.arg)]
    /\ UNCHANGED <<fsys, runVars, extVars>>

SpecResolve == InitResolve /\ [][ResolveStep]_vars

-----------------------------------------------------------------------------
(* The command handler of extension.ts (14-69) and the panel it shows.  A  *)
(* showDiagram invocation runs without interruption up to its await of     *)
(* analyzeReactProject and again from the completion of the analysis to    *)
(* its end; the user may close a panel between any two such steps.         *)

\* a plausible slip: the handler registers no onDidDispose callback, so
\* currentPanel keeps the disposed panel
onDidDispose_Kept(current) == current

\* the callback the handler registers on a new panel (21-23): the new value
\* of currentPanel
onDidDispose(current) == 0

\* reactVisualizer.showDiagram up to the await (17-46), called by the
\* commands and by the file watcher: the panel is revealed or created;
\* without a workspace folder the handler returns
ShowDiagram ==
    /\ Len(commands) < MaxCommands
    /\ \E workspaceFolder \in BOOLEAN :
          LET created == currentPanel = 0
              panel == IF created THEN Len(panels) + 1 ELSE currentPanel
          IN  /\ panels' = IF created
                           THEN Append(panels, [disposed |-> FALSE])
                           ELSE panels
              /\ currentPanel' = panel
              /\ commands' = Append(commands,
                                 [pc |-> IF workspaceFolder THEN "analyzing"
                                         ELSE "returned",
                                  panel |-> panel])
    /\ UNCHANGED <<fsys, probe, runVars, updates>>

\* the analysis of invocation k completes (46-68): when the promise is
\* fulfilled and currentPanel is set, the result is handed to
\* currentPanel.updateVisualization; a rejection goes to the catch clause
AnalysisDone(k) ==
    /\ commands[k].pc = "analyzing"
    /\ \E fulfilled \in BOOLEAN :
          /\ updates' = IF fulfilled /\ currentPanel # 0
                        THEN Append(updates,
                                 [by |-> k, panel |-> currentPanel,
                                  disposed |->
                                      panels[currentPanel].disposed,
                                  closed |->
                                      panels[commands[k].panel].disposed])
                        ELSE updates
          /\ commands' = [commands EXCEPT
                             ![k].pc = IF fulfilled THEN "shown"
                                       ELSE "failed"]
    /\ UNCHANGED <<fsys, probe, runVars, currentPanel, panels>>

\* the user closes panel p: the webview panel fires onDidDispose, which
\* runs VisualizerPanel.dispose (visualizerPanel.ts 30, 133-147) and the
\* callback of the handler
ClosePanel(p) ==
    /\ ~panels[p].disposed
    /\ panels' = [panels EXCEPT ![p].disposed = TRUE]
    /\ currentPanel' = onDidDispose(currentPanel)
    /\ UNCHANGED <<fsys, probe, runVars, commands, updates>>

InitPanel ==
    /\ fsys = [dirs |-> <<>>, files |-> {}, statFail |-> {},
               listFail |-> {}, content |-> <<>>]
    /\ probe = [op |-> "none"]
    /\ InitRun

NextPanel ==
    \/ ShowDiagram
    \/ \E k \in 1..Len(commands) : AnalysisDone(k)
    \/ \E p \in 1..Len(panels) : ClosePanel(p)

SpecPanel == InitPanel /\ [][NextPanel]_vars

-----------------------------------------------------------------------------
(* Conflict detection on its own: detectConflicts applied to component     *)
(* lists.                                                                  *)

ConflictNames == {"Header", "Nav"}

PropPool == {"user", "setUser", "theme"}

ConsumerPool == {"user", "userCtx", "useTheme"}

\* the sequences of at most two distinct members of a set
UpToTwo(S) ==
    {<<>>} \cup {<<a>> : a \in S}
           \cup {<<a, b>> : <<a, b>> \in {q \in S \X S : q[1] # q[2]}}

\* the item the useContext visitor builds for `const name = useContext(..)`
ConsumerItem(componentName, name) ==
    Item(componentName, name, name \o "()", "context-consumer",
         name \o "-context")

\* a component of the given file with the given consumers and props
ConflictComponent(name, filePath, consumers, props) ==
    ComponentData(name, filePath,
        [i \in 1..Len(consumers) |-> ConsumerItem(name, consumers[i])]
            \o propItems(name, props))

ConflictInputs ==
    LET one(filePath) ==
            {ConflictComponent(name, filePath, consumers, props) :
                name \in ConflictNames,
                consumers \in {q \in UpToTwo(ConsumerPool) : Len(q) <= 1},
                props \in UpToTwo(PropPool)}
    IN  {<<a>> : a \in one("/w/a.tsx")}
        \cup {<<a, b>> : a \in one("/w/a.tsx"), b \in one("/w/b.tsx")}

InitConflicts ==
    /\ fsys = [dirs |-> <<>>, files |-> {}, statFail |-> {},
               listFail |-> {}, content |-> <<>>]
    /\ \E comps \in ConflictInputs :
          probe = [op |-> "detectConflicts", arg |-> comps, done |-> FALSE,
                   out |-> <<>>]
    /\ InitRun

ConflictStep ==
    /\ probe.op = "detectConflicts"
    /\ ~probe.done
    /\ probe' = [probe EXCEPT !.done = TRUE,
                              !.out = detectConflicts(probe.arg)]
    /\ UNCHANGED <<fsys, runVars, extVars>>

SpecConflicts == InitConflicts /\ [][ConflictStep]_vars

-----------------------------------------------------------------------------
(* The attribute loop on its own: attrFlows applied to one attribute       *)
(* <Button attr={src} /> inside Form, for a parent item src and a child    *)
(* item attr of every kind.                                                *)

FlowAttrNames == {"value", "onSave"}

FlowInputs ==
    {[parent |-> ComponentData("Form", "/w/a.tsx",
                     <<Item("Form", "src", "src", fromType, "src-flow")>>),
      child  |-> ComponentData("Button", "/w/b.tsx",
                     <<Item("Button", name, name, toType,
                            name \o "-flow")>>),
      attrs  |-> <<Attr(name, "JSXExpressionContainer", "Identifier",
                        "src")>>] :
        fromType \in ItemTypes, toType \in ItemTypes, name \in FlowAttrNames}

InitFlows ==
    /\ fsys = [dirs |-> <<>>, files |-> {}, statFail |-> {},
               listFail |-> {}, content |-> <<>>]
    /\ \E in \in FlowInputs :
          probe = [op |-> "attrFlows", arg |-> in, done |-> FALSE,
                   out |-> <<>>]
    /\ InitRun

FlowStep ==
    /\ probe.op = "attrFlows"
    /\ ~probe.done
    /\ probe' = [probe EXCEPT !.done = TRUE,
                    !.out = attrFlows(probe.arg.attrs, probe.arg.parent,
                                      probe.arg.child)]
    /\ UNCHANGED <<fsys, runVars, extVars>>

SpecFlows == InitFlows /\ [][FlowStep]_vars

-----------------------------------------------------------------------------
(* Layout on its own: layoutComponents applied to component lists.         *)

\* a short name (width 200) and one of 28 letters (width 264)
LayoutNames == {"Card", "NavigationSidebarPanelHeader"}

\* no items (height 100) and four prop items (height 132)
LayoutProps == {<<>>, <<"title", "value", "label", "onClick">>}

\* lists of up to MaxComponents components of these names and items
LayoutInputs ==
    UNION {[1..n -> {ComponentData(name, "/w/a.tsx", propItems(name, props)) :
                        name \in LayoutNames, props \in LayoutProps}] :
           n \in 0..MaxComponents}

InitLayout ==
    /\ fsys = [dirs |-> <<>>, files |-> {}, statFail |-> {},
               listFail |-> {}, content |-> <<>>]
    /\ \E comps \in LayoutInputs :
          probe = [op |-> "layoutComponents", arg |-> comps, done |-> FALSE,
                   out |-> <<>>]
    /\ InitRun

LayoutStep ==
    /\ probe.op = "layoutComponents"
    /\ ~probe.done
    /\ probe' = [probe EXCEPT !.done = TRUE,
                              !.out = layoutComponents(probe.arg)]
    /\ UNCHANGED <<fsys, runVars, extVars>>

SpecLayout == InitLayout /\ [][LayoutStep]_vars

-----------------------------------------------------------------------------
(* The properties checked.                                                 *)

\* the diagnostics bundle a result refers to, as the caller reads it
DebugOf(c) == heap[result[c].debug]

\* the ids of the items of the components of a result
ItemIds(c) ==
    UNION {{result[c].components[i].items[j].id :
               j \in 1..Len(result[c].components[i].items)} :
           i \in 1..Len(result[c].components)}

\* the indices of the entries of a list of diagnostics
Entries(list, kind, path) ==
    {i \in 1..Len(list) : list[i].kind = kind /\ list[i].path = path}

NoDuplicates(s) == \A i, j \in 1..Len(s) : i # j => s[i] # s[j]

\* C1: every flow of a returned result starts and ends at the id of an item
\* of a component of that result; a JSX attribute whose value resolves to no
\* item of the parent yields no flow.
C1_FlowsResolve ==
    \A c \in Calls :
        pc[c] = "done" =>
            \A i \in 1..Len(result[c].flows) :
                /\ result[c].flows[i].fromItem \in ItemIds(c)
                /\ result[c].flows[i].toItem \in ItemIds(c)

\* a result with a flow from App's title to Button's label, from a file
\* whose element also passes value={count}, count being no item of App
C1_Witness ==
    \E c \in Calls :
        /\ pc[c] = "done"
        /\ \E i \in 1..Len(result[c].flows) :
              /\ result[c].flows[i].fromItem = "App-title"
              /\ result[c].flows[i].toItem = "Button-label"
        /\ "Button-value" \in ItemIds(c)
        /\ "App-count" \notin ItemIds(c)

\* C2: in one run analyzeFile is entered at most once per path, and no
\* component of one file appears twice in the result.
C2_AnalyzedOnce ==
    \A c \in Calls :
        /\ NoDuplicates(analyzeFileCalls[c])
        /\ pc[c] = "done" =>
              \A i, j \in 1..Len(result[c].components) :
                  i # j =>
                      \/ result[c].components[i].name
                            # result[c].components[j].name
                      \/ result[c].components[i].filePath
                            # result[c].components[j].filePath

\* C3: the recursive follow never enters a file it is already following.
C3_NoRevisit ==
    \A c \in Calls :
        \A i, j \in 1..Len(stack[c]) :
            i # j => stack[c][i].file # stack[c][j].file

\* the files of a run whose text the parser rejected
ParseFailed(c) ==
    {f \in SeqToSet(analyzeFileCalls[c]) :
        IsFile(fsys, f) /\ fsys.content[f].readable
        /\ ~fsys.content[f].parses}

\* C4: a file that fails to parse contributes no component and exactly one
\* entry of parseErrors, and every discovered file is still analyzed.
C4_OneParseError ==
    \A c \in Calls :
        pc[c] = "done" =>
            /\ \A f \in ParseFailed(c) :
                  /\ \A i \in 1..Len(result[c].components) :
                        result[c].components[i].filePath # f
                  /\ Cardinality(Entries(DebugOf(c).parseErrors,
                                         "parse", f)) = 1
            /\ \A i \in 1..Len(reactFiles[c]) :
                  reactFiles[c][i] \in SeqToSet(analyzeFileCalls[c])

\* the accept entries of a trace log
Accepts(log) == {i \in 1..Len(log) : log[i].kind = "accept"}

\* C5: the component list of a result is as long as the number of accept
\* entries of its trace log, and as long as its componentsFound.
C5_AcceptsMatchComponents ==
    \A c \in Calls :
        pc[c] = "done" =>
            /\ Len(result[c].components)
                  = Cardinality(Accepts(DebugOf(c).analysisLog))
            /\ Len(result[c].components) = Len(DebugOf(c).componentsFound)

\* every entry of a bundle was pushed by call c
OwnEntries(d, c) ==
    \A field \in {"filesAnalyzed", "componentsFound", "parseErrors",
                  "analysisLog"} :
        \A i \in 1..Len(d[field]) : d[field][i].by = c

\* C6: the diagnostics bundle of a result holds only entries of the call
\* that returned it, also when two calls overlap.
C6_OwnDiagnostics ==
    \A c \in Calls : pc[c] = "done" => OwnEntries(DebugOf(c), c)

\* the failures of a run that returned are all in its diagnostics
FailuresRecorded(c) ==
    /\ \A d \in fsys.listFail :
          (/\ IsDir(fsys, root[c])
           /\ \E i \in 1..Len(fsys.dirs[root[c]]) :
                 Join(root[c], fsys.dirs[root[c]][i]) = d)
          => Entries(DebugOf(c).parseErrors, "readdir", d) # {}
    /\ \A f \in ParseFailed(c) :
          Entries(DebugOf(c).parseErrors, "parse", f) # {}
    /\ \A i \in 1..Len(reactFiles[c]) :
          ~fsys.content[reactFiles[c][i]].readable
          => Entries(DebugOf(c).parseErrors, "analyze", reactFiles[c][i])
                # {}
    /\ \A f \in SeqToSet(analyzeFileCalls[c]) \ SeqToSet(reactFiles[c]) :
          ~fsys.content[f].readable
          => Entries(DebugOf(c).analysisLog, "followError", f) # {}

\* what a discovered file that is read, parsed and holds a component gives
Extracted(c) ==
    \A i \in 1..Len(reactFiles[c]) :
        LET f == reactFiles[c][i]
            text == fsys.content[f]
        IN  text.readable /\ text.parses =>
                \A k \in 1..Len(text.decls) :
                    accepted(text.decls[k]) =>
                        \E n \in 1..Len(result[c].components) :
                            /\ result[c].components[n].filePath = f
                            /\ result[c].components[n].name
                                  = declName(text.decls[k])

\* the guard of the next step of a call holds: the call is suspended at an
\* await that settles and the thread is free, or it holds the thread inside
\* the loop or an activation of analyzeFile
CanStep(c) ==
    \/ pc[c] \in {"awaitFind", "awaitFile", "awaitFlows"} /\ active = 0
    \/ pc[c] = "loop" /\ active = c
    \/ pc[c] \in {"enter", "follow"} /\ active = c /\ stack[c] # <<>>

\* a call that has not settled is never stuck: it can take its next step,
\* or the call that holds the thread can
GoesOn(c) ==
    \/ CanStep(c)
    \/ active \in Calls /\ active # c /\ CanStep(active)

\* C7: a call is rejected exactly when the stat of its root throws; after
\* any other failure the call goes on, and its result holds what was
\* extracted and a record of every failure.
C7_OnlyRootStatRejects ==
    \A c \in Calls :
        /\ pc[c] = "rejected" => StatThrows(fsys, root[c])
        /\ (pc[c] \notin {"idle", "awaitFind"}
            /\ StatThrows(fsys, root[c])) => pc[c] = "rejected"
        /\ ~Settled(c) => GoesOn(c)
        /\ pc[c] = "done" => FailuresRecorded(c) /\ Extracted(c)

\* the position of an entry in the listing of the scanned root
RootEntries == 1..Len(fsys.dirs[probe.arg])

RootEntry(i) == Join(probe.arg, fsys.dirs[probe.arg][i])

\* statSync(d) throws in the loop of the parent, or readdirSync(d) throws
\* in the scan of d, which the guard of scanDirectory lets through
Raises(d) ==
    \/ d \in fsys.statFail
    \/ d \in fsys.listFail /\ ~Excluded(d)

\* C8: when listing or stat-ing a subdirectory D of the root fails, the
\* failure is recorded and every source file listed after D in the root is
\* still returned.
C8_SiblingsScanned ==
    (probe.op = "findReactFiles" /\ probe.done /\ ~Excluded(probe.arg)) =>
        \A i \in RootEntries :
            Raises(RootEntry(i)) =>
                /\ probe.out.parseErrors # <<>>
                /\ \A j \in RootEntries :
                      (/\ j > i
                       /\ IsFile(fsys, RootEntry(j))
                       /\ IsSourceName(BaseName(RootEntry(j))))
                      => RootEntry(j) \in SeqToSet(probe.out.reactFiles)

\* the fixed exclusion list, as directory names
ExcludedNames == {"node_modules", ".git", ".next", "media", "out"}

RECURSIVE DirsBetween(_, _)
\* the directories from the parent of p up to, not including, the root r
DirsBetween(p, r) ==
    IF DirName(p) = r \/ DirName(p) = "/" THEN {}
    ELSE {DirName(p)} \cup DirsBetween(DirName(p), r)

Under(p, r) == StartsWith(p, r \o "/")

\* C9: on a tree without read failures, discovery returns exactly the
\* files under the root with one of the four extensions and no directory
\* named on the exclusion list between the root and the file.
C9_PrunedByName ==
    (probe.op = "findReactFiles" /\ probe.done
     /\ fsys.statFail = {} /\ fsys.listFail = {}) =>
        SeqToSet(probe.out.reactFiles)
          = {f \in fsys.files :
                /\ Under(f, probe.arg)
                /\ ExtName(f) \in {".js", ".jsx", ".ts", ".tsx"}
                /\ \A d \in DirsBetween(f, probe.arg) :
                      BaseName(d) \notin ExcludedNames}

\* the path the specifier under check resolves to
Resolved == Resolve(DirName(ResolveFrom), probe.arg)

\* resolved plus each extension, then index plus each extension inside it
Candidates(resolved) ==
    <<resolved \o ".tsx", resolved \o ".ts", resolved \o ".jsx",
      resolved \o ".js", resolved \o "/index.tsx", resolved \o "/index.ts",
      resolved \o "/index.jsx", resolved \o "/index.js">>

\* out is the first path of cands that exists, null exactly when none does
IsFirstExisting(out, cands) ==
    IF \A i \in 1..Len(cands) : ~existsSync(fsys, cands[i])
    THEN out = null
    ELSE \E i \in 1..Len(cands) :
            /\ out = cands[i]
            /\ existsSync(fsys, cands[i])
            /\ \A j \in 1..(i - 1) : ~existsSync(fsys, cands[j])

\* C10 as stated: the literal path when it has an extension and exists,
\* then the extensions, then the index files; null exactly when none of
\* these exists.
C10_FallsThrough ==
    (probe.op = "resolveImportPath" /\ probe.done) =>
        IsFirstExisting(probe.out,
            (IF ExtName(Resolved) # "" THEN <<Resolved>> ELSE <<>>)
                \o Candidates(Resolved))

\* the function and arrow-function declarations of a text, in any form
FunctionDecls(text) ==
    {k \in 1..Len(text.decls) :
        \/ text.decls[k].node = "FunctionDeclaration"
        \/ text.decls[k].init \in {"ArrowFunctionExpression",
                                   "FunctionExpression"}}

\* the result of call c holds a component of file f under the given name
Emitted(c, f, name) ==
    \E n \in 1..Len(result[c].components) :
        /\ result[c].components[n].filePath = f
        /\ result[c].components[n].name = name

\* the files call c analysed whose text was read and parsed
Parsed(c) ==
    {f \in SeqToSet(analyzeFileCalls[c]) :
        IsFile(fsys, f) /\ fsys.content[f].readable
        /\ fsys.content[f].parses}

ComponentsOf(c, f, name) ==
    {n \in 1..Len(result[c].components) :
        /\ result[c].components[n].filePath = f
        /\ result[c].components[n].name = name}

\* items holds at i a state item and at i + 1 its setter, as the claim
\* names and keys them
StatePair(items, i, componentName, stateName, setterName) ==
    /\ i + 1 <= Len(items)
    /\ items[i] = Item(componentName, stateName, stateName, "state",
                       stateName \o "-flow")
    /\ items[i + 1] = Item(componentName, setterName, setterName, "setter",
                           stateName \o "-flow")

\* C12: every useState or useReducer call of a component whose result is
\* destructured into a two-element array pattern yields a state item named
\* after the first element, immediately followed by a setter item named
\* after the second, with ids {componentName}-{name} and the common flowId
\* {stateName}-flow.
C12_StateHookItems ==
    \A c \in Calls :
        pc[c] = "done" =>
            \A f \in Parsed(c) :
                \A k \in FunctionDecls(fsys.content[f]) :
                    LET d == fsys.content[f].decls[k]
                    IN  \A n \in ComponentsOf(c, f, declName(d)) :
                        \A h \in 1..Len(d.body) :
                            (/\ d.body[h].kind \in {"useState", "useReducer"}
                             /\ d.body[h].declarator = "ArrayPattern"
                             /\ Len(d.body[h].elements) = 2
                             /\ d.body[h].elements[1] # ""
                             /\ d.body[h].elements[2] # "")
                            => \E i \in 1..Len(result[c].components[n].items) :
                                  StatePair(result[c].components[n].items, i,
                                            declName(d),
                                            d.body[h].elements[1],
                                            d.body[h].elements[2])

\* the destructured keys of an object pattern in declaration order, a rest
\* element as "..." and its name
DestructuredKeys(properties) ==
    [i \in 1..Len(properties) |->
        IF properties[i].type = "RestElement"
        THEN "..." \o properties[i].name
        ELSE properties[i].name]

\* the names of the prop items of a component, in order
PropNames(items) ==
    LET props == SelectSeq(items, LAMBDA it : it.type = "prop")
    IN  [i \in 1..Len(props) |-> props[i].name]

\* C13: the prop items of a component whose first parameter is an object
\* destructuring pattern are exactly the destructured keys in declaration
\* order, plus the pseudo-prop ...{name} of a rest element, used in the
\* body or not.
C13_DestructuredProps ==
    \A c \in Calls :
        pc[c] = "done" =>
            \A f \in Parsed(c) :
                \A k \in FunctionDecls(fsys.content[f]) :
                    LET d == fsys.content[f].decls[k]
                    IN  (Len(d.params) > 0
                         /\ d.params[1].type = "ObjectPattern")
                        => \A n \in ComponentsOf(c, f, declName(d)) :
                              PropNames(result[c].components[n].items)
                                 = DestructuredKeys(d.params[1].properties)

\* the ancestors of a usage that declare a function, an arrow function
\* bound to a name, or a class
Declarations(u) ==
    {i \in 1..Len(u.ancestors) :
        /\ u.ancestors[i].type \in {"FunctionDeclaration",
                                    "VariableDeclarator",
                                    "ClassDeclaration"}
        /\ u.ancestors[i].name # ""}

\* the nearest ancestor declaration of usage u in file f that is a
\* component of the result of call c, 0 when there is none
EnclosingComponent(c, f, u) ==
    LET known == {i \in Declarations(u) :
                     Emitted(c, f, u.ancestors[i].name)}
    IN  IF known = {} THEN 0
        ELSE CHOOSE i \in known : \A j \in known : i <= j

\* some component of the result named name has an item named item whose type
\* is one of types
HasItem(c, name, item, types) ==
    \E n \in 1..Len(result[c].components) :
        /\ result[c].components[n].name = name
        /\ FindItem(result[c].components[n].items, item, types) # 0

\* the flows the usages of the analysed files must give: for an attribute
\* attr={n} or attr={x.y.n} of <Child> inside the component Parent, Child
\* having the prop attr and Parent an item n, the pair of the two item ids
ExpectedFlows(c) ==
    UNION {
        UNION {
            LET u == fsys.content[f].jsx[e]
                a == EnclosingComponent(c, f, u)
            IN  IF a = 0 THEN {}
                ELSE {<<u.ancestors[a].name \o "-" \o ValueName(u.attributes[t]),
                        u.tag \o "-" \o u.attributes[t].name>> :
                        t \in {t \in 1..Len(u.attributes) :
                                 /\ ValueName(u.attributes[t]) # ""
                                 /\ HasItem(c, u.tag, u.attributes[t].name,
                                            {"prop", "prop-function"})
                                 /\ HasItem(c, u.ancestors[a].name,
                                            ValueName(u.attributes[t]),
                                            ItemTypes)}} :
            e \in 1..Len(fsys.content[f].jsx)} :
        f \in Parsed(c)}

\* C14: for every <Child attr={v} /> lexically inside a known parent
\* component (function, arrow function or class), Child being a known
\* component with a prop item attr, v an identifier n or a member expression
\* ending in n, and the parent having an item named n, the result holds a
\* flow from the parent's item n to Child's prop item attr.
C14_AttributeFlows ==
    \A c \in Calls :
        pc[c] = "done" =>
            \A pair \in ExpectedFlows(c) :
                \E i \in 1..Len(result[c].flows) :
                    /\ result[c].flows[i].fromItem = pair[1]
                    /\ result[c].flows[i].toItem = pair[2]

\* the prop items and the context-consumer items of a component
ItemsOfType(component, type) ==
    {i \in 1..Len(component.items) : component.items[i].type = type}

Columns(n) == CHOOSE k \in 0..n : k * k >= n /\ \A j \in 0..n : j * j >= n => k <= j

\* C16: layout gives the component at index i of n the position
\* x = (i mod cols) * (width + 50) + 50 and
\* y = floor(i / cols) * (height + 50) + 50 with cols = ceil(sqrt(n)), keeps
\* the order of the components and leaves every other field as it was.
C16_GridLayout ==
    (probe.op = "layoutComponents" /\ probe.done) =>
        /\ Len(probe.out) = Len(probe.arg)
        /\ \A j \in 1..Len(probe.arg) :
              LET in == probe.arg[j]
                  out == probe.out[j]
                  cols == Columns(Len(probe.arg))
                  index == j - 1
              IN  /\ out.x = (index % cols) * (in.width + 50) + 50
                  /\ out.y = (index \div cols) * (in.height + 50) + 50
                  /\ DOMAIN out = DOMAIN in
                  /\ \A f \in DOMAIN in \ {"x", "y"} : out[f] = in[f]

\* five components laid out in three columns: the fifth, a wide and tall
\* one, is the second of the second row
C16_Witness ==
    /\ probe.op = "layoutComponents"
    /\ probe.done
    /\ Len(probe.out) = 5
    /\ probe.out[1].x = 50 /\ probe.out[1].y = 50
    /\ probe.out[5].width = 264 /\ probe.out[5].height = 132
    /\ probe.out[5].x = 364 /\ probe.out[5].y = 232

\* the components the registry of a call holds
Registered(c) == {componentMap[c][k].value : k \in 1..Len(componentMap[c])}

\* C17: components are keyed by (name, filePath): every component a call
\* has collected, with its own filePath and items, is an entry of the
\* registry its JSX usages and flow endpoints are resolved with, also when
\* another file declares a component of the same name.
C17_KeyedByNameAndFile ==
    \A c \in Calls :
        pc[c] = "done" =>
            /\ Len(result[c].components) = Len(components[c])
            /\ \A i \in 1..Len(components[c]) :
                  /\ result[c].components[i].name = components[c][i].name
                  /\ result[c].components[i].filePath
                        = components[c][i].filePath
                  /\ result[c].components[i].items = components[c][i].items
                  /\ components[c][i] \in Registered(c)

\* C18: the parent of a JSX usage of a known component is its nearest
\* ancestor declaration (function, arrow function or class) that is itself
\* a known component, ancestors that are no components being skipped: the
\* usage is then processed for that parent, which the analysis log records
\* as "Parent renders Child".
C18_NearestKnownAncestor ==
    \A c \in Calls :
        pc[c] = "done" =>
            \A f \in Parsed(c) \cap SeqToSet(reactFiles[c]) :
                \A e \in 1..Len(fsys.content[f].jsx) :
                    LET u == fsys.content[f].jsx[e]
                        a == EnclosingComponent(c, f, u)
                    IN  (/\ u.identifierTag
                         /\ StartsUpper(u.tag)
                         /\ \E n \in 1..Len(result[c].components) :
                               result[c].components[n].name = u.tag
                         /\ a # 0)
                        => \E i \in Entries(DebugOf(c).analysisLog, "jsx", f) :
                              DebugOf(c).analysisLog[i].name
                                 = u.ancestors[a].name \o " renders " \o u.tag

\* C19: the classification of a function depends on its own body only: a
\* function or arrow function is emitted as a component only when its own
\* body, the bodies of the functions and classes nested in it left aside,
\* holds JSX, or when its name is uppercase and its own body holds a return
\* statement.
C19_OwnBodyOnly ==
    \A c \in Calls :
        pc[c] = "done" =>
            \A f \in Parsed(c) :
                \A k \in FunctionDecls(fsys.content[f]) :
                    LET d == fsys.content[f].decls[k]
                    IN  Emitted(c, f, declName(d))
                            => \/ d.hasJSX
                               \/ /\ StartsUpper(declName(d))
                                  /\ d.returnStatements > 0

\* C20: an anonymous default-exported arrow function or function expression
\* is emitted, as DefaultExport, only when JSX is found in its body; a
\* return statement alone does not make it a component.
C20_AnonymousNeedsJSX ==
    \A c \in Calls :
        pc[c] = "done" =>
            \A f \in Parsed(c) :
                \A k \in FunctionDecls(fsys.content[f]) :
                    LET d == fsys.content[f].decls[k]
                    IN  (/\ d.node = "ExportDefaultExpression"
                         /\ d.name = ""
                         /\ Emitted(c, f, "DefaultExport"))
                            => (d.hasJSX \/ d.inner.hasJSX)

\* the superclass text names the identifier Component or a member
\* expression whose final property is Component
ExtendsComponent(superClass) ==
    \/ superClass = "Component"
    \/ /\ Len(superClass) > Len(".Component")
       /\ SubSeq(superClass, Len(superClass) - Len(".Component") + 1,
                 Len(superClass)) = ".Component"

\* the function items of the methods other than render and constructor
MethodItems(componentName, methods) ==
    LET kept == SelectSeq(methods,
                    LAMBDA m : m \notin {"render", "constructor"})
    IN  [i \in 1..Len(kept) |->
            [id |-> componentName \o "-" \o kept[i], name |-> kept[i],
             type |-> "function", flowId |-> kept[i] \o "-flow"]]

\* C21: a class declaration is emitted as a component exactly when its
\* superclass is the identifier Component or a member expression whose final
\* property is Component, and the items of an emitted class component are
\* the function items of its methods other than render and constructor, one
\* per method.
C21_ClassComponents ==
    \A c \in Calls :
        pc[c] = "done" =>
            \A f \in Parsed(c) :
                \A k \in 1..Len(fsys.content[f].decls) :
                    LET d == fsys.content[f].decls[k]
                    IN  (d.node = "ClassDeclaration" /\ d.name # "") =>
                            /\ Emitted(c, f, d.name)
                                  <=> ExtendsComponent(d.superClass)
                            /\ \A n \in ComponentsOf(c, f, d.name) :
                                  result[c].components[n].items
                                     = MethodItems(d.name, d.methods)

\* the attribute occurrences of the files whose JSX call c went through:
\* <<file, element, attribute>>
AttrOccurrences(c) ==
    UNION {
        UNION {{<<f, e, t>> :
                   t \in 1..Len(fsys.content[f].jsx[e].attributes)} :
               e \in 1..Len(fsys.content[f].jsx)} :
        f \in Parsed(c) \cap SeqToSet(reactFiles[c])}

\* the flow is one the attribute occurrence may give: the attribute names a
\* prop or prop-function item of the target component, its value is an
\* identifier or a member expression naming an item of a component the
\* element lies in, and the flow joins these two items
Justifies(c, occ, flow) ==
    LET u == fsys.content[occ[1]].jsx[occ[2]]
        attr == u.attributes[occ[3]]
        itemOf(names, item, types, id) ==
            \E n \in 1..Len(result[c].components) :
                /\ result[c].components[n].name \in names
                /\ \E j \in 1..Len(result[c].components[n].items) :
                      /\ result[c].components[n].items[j].name = item
                      /\ result[c].components[n].items[j].type \in types
                      /\ result[c].components[n].items[j].id = id
    IN  /\ attr.type = "JSXAttribute"
        /\ flow.id = attr.name \o "-flow"
        /\ itemOf({u.tag}, attr.name, {"prop", "prop-function"}, flow.toItem)
        /\ attr.value = "JSXExpressionContainer"
        /\ attr.expr \in {"Identifier", "MemberExpression"}
        /\ itemOf({u.ancestors[a].name : a \in 1..Len(u.ancestors)},
                  attr.exprName, ItemTypes, flow.fromItem)

\* C22: a flow is emitted for a JSX attribute only if the attribute names a
\* prop or prop-function item of the target component and its value is an
\* identifier or a member expression whose name is that of an item of the
\* parent component; string literals, calls, templates, spreads and
\* valueless attributes give no flow, and an attribute occurrence gives at
\* most one flow: the flows of a result can be assigned one to one to
\* attribute occurrences that justify them.
C22_FlowsOnlyFromTrackedValues ==
    \A c \in Calls :
        pc[c] = "done" =>
            LET used == {occ \in AttrOccurrences(c) :
                            \E i \in 1..Len(result[c].flows) :
                                Justifies(c, occ, result[c].flows[i])}
            IN  \E g \in [1..Len(result[c].flows) -> used] :
                    /\ \A i, j \in 1..Len(result[c].flows) :
                          i # j => g[i] # g[j]
                    /\ \A i \in 1..Len(result[c].flows) :
                          Justifies(c, g[i], result[c].flows[i])

\* a result for Form of a.tsx, whose three <Button> elements pass a string
\* literal, a spread, a call, a valueless attribute and a template beside an
\* identifier and a member expression: exactly the two flows of the latter
C22_Witness ==
    \E c \in Calls :
        /\ pc[c] = "done"
        /\ fsys.content["/w/a.tsx"] = TextAttrs("./b")
        /\ "/w/a.tsx" \in Parsed(c) \cap SeqToSet(reactFiles[c])
        /\ Len(result[c].flows) = 2
        /\ result[c].flows[1].fromItem = "Form-title"
        /\ result[c].flows[1].toItem = "Button-label"
        /\ result[c].flows[2].fromItem = "Form-value"
        /\ result[c].flows[2].toItem = "Button-value"

\* the flow type the kinds of the two items of a flow give
FlowTypeOf(fromKind, toKind) ==
    CASE fromKind = "state" /\ toKind = "prop" -> "state-to-prop"
      [] fromKind = "setter" /\ toKind = "prop-function" -> "setter-to-prop"
      [] fromKind = "function" /\ toKind = "prop-function"
            -> "function-to-prop"
      [] fromKind = "prop" /\ toKind = "prop" -> "prop-to-prop"
      [] fromKind = "context-provider" -> "context-provider-to-consumer"
      [] OTHER -> "data-flow"

\* C23: the type of every flow is the function of the kinds of its fromItem
\* and its toItem given by the table of FlowTypeOf, and its id is
\* {attribute name}-flow.
C23_FlowTypeAndId ==
    (probe.op = "attrFlows" /\ probe.done) =>
        \A i \in 1..Len(probe.out) :
            LET from == probe.arg.parent.items[1]
                to == probe.arg.child.items[1]
            IN  /\ probe.out[i].fromItem = from.id
                /\ probe.out[i].toItem = to.id
                /\ probe.out[i].type = FlowTypeOf(from.type, to.type)
                /\ probe.out[i].id = probe.arg.attrs[1].name \o "-flow"

\* onSave={src} with src a setter of Form and onSave a prop-function of
\* Button: one flow, of type setter-to-prop
C23_Witness ==
    /\ probe.op = "attrFlows"
    /\ probe.done
    /\ probe.arg.parent.items[1].type = "setter"
    /\ probe.arg.child.items[1].type = "prop-function"
    /\ probe.out = <<[id |-> "onSave-flow", fromItem |-> "Form-src",
                      toItem |-> "Button-onSave",
                      type |-> "setter-to-prop"]>>

\* the names of the items one call or local function of a body gives
ExpectedNames(b) ==
    CASE b.kind \in {"useState", "useReducer"} ->
            IF b.declarator = "ArrayPattern" /\ Len(b.elements) >= 2
            THEN {b.elements[1], b.elements[2]} \ {""} ELSE {}
      [] b.kind = "useContext" ->
            IF b.declarator = "Identifier" THEN {b.elements[1] \o "()"}
            ELSE {}
      [] b.kind = "Provider" ->
            {(IF b.elements[1] # "" THEN b.elements[1] ELSE "Context")
                \o "Provider"}
      [] b.kind \in {"FunctionDeclaration", "ArrowVariable"} ->
            {b.elements[1]}
      [] OTHER -> {}

\* the kind of item a call or local function of a body belongs to
BranchOf(b) ==
    CASE b.kind \in {"useState", "useReducer"} -> "state hooks"
      [] b.kind = "useContext" -> "context hooks"
      [] b.kind = "Provider" -> "providers"
      [] OTHER -> "local functions"

\* the kinds of item of declaration d that contribute less to items than
\* the declaration holds
MissingBranches(items, d) ==
    LET names == {items[i].name : i \in 1..Len(items)}
    IN  {BranchOf(d.body[h]) :
            h \in {h \in 1..Len(d.body) :
                      ~(ExpectedNames(d.body[h]) \subseteq names)}}
        \cup (IF Len(d.params) > 0 /\ d.params[1].type = "ObjectPattern"
                 /\ ~(SeqToSet(DestructuredKeys(d.params[1].properties))
                         \subseteq names)
              THEN {"props"} ELSE {})

\* C24: an exception raised while one kind of item (state hooks, context
\* hooks, providers, local functions, props) of a component is extracted is
\* caught and logged, and the other kinds still contribute their items: a
\* component whose extraction logged one error lacks the items of at most
\* one kind.
C24_BranchesIndependent ==
    \A c \in Calls :
        pc[c] = "done" =>
            \A f \in Parsed(c) :
                \A k \in FunctionDecls(fsys.content[f]) :
                    LET d == fsys.content[f].decls[k]
                    IN  \A n \in ComponentsOf(c, f, declName(d)) :
                            Cardinality(MissingBranches(
                                result[c].components[n].items, d))
                              <= Cardinality({i \in Entries(
                                     DebugOf(c).analysisLog,
                                     "componentError", f) :
                                     DebugOf(c).analysisLog[i].name
                                        = declName(d)})

\* the items of a result: <<component index, item index>>
ItemSlots(c) ==
    UNION {{<<n, j>> : j \in 1..Len(result[c].components[n].items)} :
           n \in 1..Len(result[c].components)}

\* C25: within one result item ids are unique: no two items, of one
\* component or of two, have the same id.
C25_ItemIdsUnique ==
    \A c \in Calls :
        pc[c] = "done" =>
            \A s, t \in ItemSlots(c) :
                s # t => result[c].components[s[1]].items[s[2]].id
                            # result[c].components[t[1]].items[t[2]].id

\* the declarations of a text that are declared inside declaration d
NestedIn(text, d) ==
    {k \in 1..Len(text.decls) :
        \E h \in 1..Len(d.body) :
            /\ d.body[h].kind \in {"FunctionDeclaration", "ArrowVariable"}
            /\ d.body[h].elements[1] = text.decls[k].name}

\* the hook calls, provider calls and local functions whose innermost
\* enclosing declaration is d
OwnBody(text, d) ==
    {h \in 1..Len(d.body) :
        /\ ExpectedNames(d.body[h]) # {}
        /\ \A k \in NestedIn(text, d) :
              \A g \in 1..Len(text.decls[k].body) :
                  text.decls[k].body[g] # d.body[h]}

\* C26: each hook call, provider call and local function yields items in
\* exactly one component, the innermost enclosing one: the components of
\* its file that hold an item it gives are those of that declaration, also
\* when that component is declared inside another.
C26_ItemsOfInnermostOnly ==
    \A c \in Calls :
        pc[c] = "done" =>
            \A f \in Parsed(c) :
                \A k \in FunctionDecls(fsys.content[f]) :
                    LET d == fsys.content[f].decls[k]
                    IN  ComponentsOf(c, f, declName(d)) # {} =>
                        \A h \in OwnBody(fsys.content[f], d) :
                            \A name \in ExpectedNames(d.body[h]) :
                                {n \in 1..Len(result[c].components) :
                                    /\ result[c].components[n].filePath = f
                                    /\ \E j \in 1..Len(
                                           result[c].components[n].items) :
                                          result[c].components[n].items[j].name
                                             = name}
                                  = ComponentsOf(c, f, declName(d))

\* C27: every file whose components are in the result is scanned for JSX
\* usage in the flow pass, a file reached only by following an import or a
\* re-export included: a usage of a known component directly inside a
\* component of such a file is processed, which the analysis log records
\* as "Parent renders Child".
C27_FollowedFilesScanned ==
    \A c \in Calls :
        pc[c] = "done" =>
            \A f \in Parsed(c) :
                \A e \in 1..Len(fsys.content[f].jsx) :
                    LET u == fsys.content[f].jsx[e]
                        a == EnclosingComponent(c, f, u)
                    IN  (/\ u.identifierTag
                         /\ StartsUpper(u.tag)
                         /\ \E n \in 1..Len(result[c].components) :
                               result[c].components[n].name = u.tag
                         /\ a # 0
                         /\ a = ParentAncestor(u.ancestors))
                        => \E i \in 1..Len(DebugOf(c).analysisLog) :
                              /\ DebugOf(c).analysisLog[i].kind = "jsx"
                              /\ DebugOf(c).analysisLog[i].path = f
                              /\ DebugOf(c).analysisLog[i].name
                                   = u.ancestors[a].name \o " renders "
                                     \o u.tag

\* the kinds of the items of a result that have the given id
KindsOf(c, id) ==
    {result[c].components[s[1]].items[s[2]].type :
        s \in {s \in ItemSlots(c) :
                  result[c].components[s[1]].items[s[2]].id = id}}

\* C28: no item of a result is of kind prop-function, so the toItem of every
\* flow is of kind prop, no flow has type setter-to-prop or
\* function-to-prop, and a flow from a setter or a function has type
\* data-flow.
C28_NoPropFunction ==
    \A c \in Calls :
        pc[c] = "done" =>
            /\ \A s \in ItemSlots(c) :
                  result[c].components[s[1]].items[s[2]].type
                     # "prop-function"
            /\ \A i \in 1..Len(result[c].flows) :
                  LET flow == result[c].flows[i]
                  IN  /\ KindsOf(c, flow.toItem) = {"prop"}
                      /\ flow.type \notin {"setter-to-prop",
                                           "function-to-prop"}
                      /\ KindsOf(c, flow.fromItem)
                            \cap {"setter", "function"} # {}
                         => flow.type = "data-flow"

\* a result whose component Form has the prop item onSave, of kind prop,
\* beside a flow into the prop label of Button
C28_Witness ==
    \E c \in Calls :
        /\ pc[c] = "done"
        /\ KindsOf(c, "Form-onSave") = {"prop"}
        /\ \E i \in 1..Len(result[c].flows) :
              /\ result[c].flows[i].toItem = "Button-label"
              /\ result[c].flows[i].type = "prop-to-prop"

\* the rectangles [x, x + width] x [y, y + height] of a and b meet
Overlap(a, b) ==
    /\ a.x <= b.x + b.width /\ b.x <= a.x + a.width
    /\ a.y <= b.y + b.height /\ b.y <= a.y + a.height

\* C29: in a laid-out list the rectangles of two different components never
\* overlap, whatever the number of components and their widths and heights.
C29_NoOverlap ==
    (probe.op = "layoutComponents" /\ probe.done) =>
        \A i, j \in 1..Len(probe.out) :
            i # j => ~Overlap(probe.out[i], probe.out[j])

\* C29, amended: in a laid-out list the rectangles of two different
\* components never overlap when no component is wider or taller than a
\* component that follows it in the list.
C29_NoOverlapWhenOrdered ==
    (/\ probe.op = "layoutComponents"
     /\ probe.done
     /\ \A i, j \in 1..Len(probe.arg) :
           i < j => /\ probe.arg[i].width <= probe.arg[j].width
                    /\ probe.arg[i].height <= probe.arg[j].height) =>
        \A i, j \in 1..Len(probe.out) :
            i # j => ~Overlap(probe.out[i], probe.out[j])

\* five components laid out, from a narrow and low first one to a wide and
\* tall last one, none wider or taller than one that follows it
C29_Witness ==
    /\ probe.op = "layoutComponents"
    /\ probe.done
    /\ Len(probe.out) = 5
    /\ probe.out[1].width = 200 /\ probe.out[1].height = 100
    /\ probe.out[3].width = 264 /\ probe.out[3].height = 100
    /\ probe.out[5].width = 264 /\ probe.out[5].height = 132
    /\ \A i, j \in 1..5 :
          i < j => /\ probe.out[i].width <= probe.out[j].width
                   /\ probe.out[i].height <= probe.out[j].height

\* the panels that are not disposed
Undisposed == {p \in 1..Len(panels) : ~panels[p].disposed}

\* C30: under any interleaving of showDiagram commands, analysis
\* completions and panel disposals at most one undisposed panel exists,
\* currentPanel refers to it or is undefined when there is none, and
\* updateVisualization is only invoked on an undisposed panel: a result
\* whose panel was disposed during the analysis is not handed to that panel.
C30_OneLivePanel ==
    /\ Cardinality(Undisposed) <= 1
    /\ Undisposed = IF currentPanel = 0 THEN {} ELSE {currentPanel}
    /\ \A i \in 1..Len(updates) :
          /\ ~updates[i].disposed
          /\ updates[i].closed
                => updates[i].panel # commands[updates[i].by].panel

\* the panel of an invocation was closed during its analysis and another
\* invocation created a new panel; the result of the first was handed to
\* the new panel, and the result of an invocation whose panel was closed
\* with no new one created was handed to none
C30_Witness ==
    /\ \E i \in 1..Len(updates) :
          /\ updates[i].closed
          /\ updates[i].panel # commands[updates[i].by].panel
    /\ \E k \in 1..Len(commands) :
          /\ commands[k].pc = "shown"
          /\ \A i \in 1..Len(updates) : updates[i].by # k

=============================================================================
